---- MODULE Spec2Model ----
(***************************************************************************)
(* A model of the GEOP email dispatch service: the rate limiter, the       *)
(* compliance gate, the provider selector, the connection pool, the        *)
(* delivery executor (processEmailSend / sendEmail) and the tracking       *)
(* recorder, over the DatabaseStorage data-access layer.                   *)
(*                                                                         *)
(* Every await of the TypeScript code is one step of the model: between    *)
(* two awaits a task runs atomically, at an await other tasks may run.     *)
(* Every call of the data store may raise (ok = FALSE).                    *)
(***************************************************************************)
EXTENDS Integers, Sequences, FiniteSets, TLC

VARIABLES
    now,             \* Date.now(), in milliseconds
    ticks,           \* how often the clock has advanced (bounds the model)
    rlType,          \* the operation class of the rate limiter under test
    rlStore,         \* RateLimitStore.store: key -> {count, resetTime}
    rlSeen,          \* per key: requests handled since its window was opened
    rlLast,          \* the last request the rate-limit middleware handled
    rlWatch,         \* an interval of one window length and the requests accepted in it
    smtpProviders,   \* table smtp_providers, in insertion order
    selIn,           \* selector under test: the (recipient, volume) input
    selOut,          \* selector under test: the results of the calls made
    blockedRegions,  \* table blocked_regions, in insertion order
    emails,          \* table emails, in insertion order (id = position)
    connections,     \* SmtpConnectionPool.connections: provider id -> entry
    transport,       \* what was asked of the outbound transport (nodemailer)
    sends,           \* the processEmailSend tasks, one per slot
    nextSend,        \* number of send requests started so far
    trackers,        \* the trackEmailOpen / trackEmailClick tasks
    trackingEvents,  \* table email_tracking_events (append-only)
    nextTrack,       \* number of tracking requests started so far
    systemMetrics,   \* table system_metrics (append-only), the metric names
    gateLast,        \* the last answer of GET /api/compliance/check/:regionCode
    regionLast,      \* the last call of updateBlockedRegionStatus and its answer
    tplIn,           \* renderer under test: the (body, variables) input
    tplOut,          \* renderer under test: the successive renderings
    statsOut,        \* the last answer of getEmailStatistics
    htmlIn,          \* injector under test: the HTML body handed to sendEmail
    htmlOut,         \* injector under test: the successive results
    templates,       \* table templates, in insertion order (id = position)
    tmplLast         \* the last answer of createTemplate / updateTemplate

vars == << now, ticks, rlType, rlStore, rlSeen, rlLast, rlWatch, smtpProviders, selIn,
           selOut, blockedRegions, emails, connections, transport, sends,
           nextSend, trackers, trackingEvents, nextTrack, systemMetrics,
           gateLast, regionLast, tplIn, tplOut, statsOut, htmlIn, htmlOut, templates, tmplLast >>

clockVars == << now, ticks >>
rateVars == << rlType, rlStore, rlSeen, rlLast, rlWatch >>
selVars == << selIn, selOut >>
tableVars == << smtpProviders, blockedRegions, emails, trackingEvents >>
sendVars == << connections, transport, sends, nextSend >>
trackVars == << trackers, nextTrack, systemMetrics >>
routeVars == << gateLast, regionLast >>
fnVars == << tplIn, tplOut, statsOut, htmlIn, htmlOut, templates, tmplLast >>
injectVars == << htmlIn, htmlOut >>
templateVars == << templates, tmplLast >>

----------------------------------------------------------------------------
(* Bounds of the model.                                                    *)

MaxTicks == 3        \* clock advances per behaviour
MaxOver == 2         \* requests counted beyond a rate limit's max
MaxProviders == 2    \* rows of smtp_providers drawn for the selector
MaxTracks == 2       \* tracking requests per behaviour
MaxParts == 2        \* fragments a template body is made of
MaxEmails == 2       \* rows of the emails table the aggregator reads
MaxTokens == 3       \* pieces an HTML body is made of
MaxTemplates == 2    \* rows of the templates table

----------------------------------------------------------------------------
(* Strings are sequences of one-character strings, so that includes() and  *)
(* toLowerCase() are computed rather than assumed.                         *)

UpperChars == << "A", "B", "C", "D", "E", "F", "G", "H", "I", "J", "K", "L", "M",
                 "N", "O", "P", "Q", "R", "S", "T", "U", "V", "W", "X", "Y", "Z" >>
LowerChars == << "a", "b", "c", "d", "e", "f", "g", "h", "i", "j", "k", "l", "m",
                 "n", "o", "p", "q", "r", "s", "t", "u", "v", "w", "x", "y", "z" >>

LowerChar(c) ==
    IF \E i \in 1..Len(UpperChars) : UpperChars[i] = c
    THEN LowerChars[CHOOSE i \in 1..Len(UpperChars) : UpperChars[i] = c]
    ELSE c

toLowerCase(s) == [i \in 1..Len(s) |-> LowerChar(s[i])]

includes(s, sub) ==
    \E i \in 1..(Len(s) - Len(sub) + 1) : SubSeq(s, i, i + Len(sub) - 1) = sub

(* Recipient addresses of the model.                                       *)
AddrPlain == << "u", "@", "m", ".", "c", "o", "m" >>                 \* u@m.com
AddrEuIr == << "A", "+", "e", "u", "@", "X", ".", "I", "R" >>         \* A+eu@X.IR
AddrApacSyUa == << "b", "+", "a", "p", "a", "c", "@", "y", ".", "s", "y", ".", "u", "a" >>
                                                                     \* b+apac@y.sy.ua

Recipients == { AddrPlain, AddrEuIr, AddrApacSyUa }
PoolRecipients == { AddrPlain, AddrApacSyUa }


----------------------------------------------------------------------------
(* Rate limiter (utils/rate-limiter).                                      *)

ApiMax == 100
EmailMax == 1000
TrackingMax == 500

defaultRules ==
    [ api      |-> [ windowMs |-> 60 * 1000,      max |-> ApiMax ],
      email    |-> [ windowMs |-> 60 * 60 * 1000, max |-> EmailMax ],
      tracking |-> [ windowMs |-> 60 * 1000,      max |-> TrackingMax ] ]

RuleTypes == DOMAIN defaultRules

CallerIp == "10.0.0.1"

(* `${type}:${req.ip}` *)
RateKey(type, ip) == << type, ip >>

(* Map.set *)
MapSet(m, k, v) == [ x \in (DOMAIN m) \cup {k} |-> IF x = k THEN v ELSE m[x] ]

(* Map.delete for a set of keys *)
MapDrop(m, ks) == [ x \in (DOMAIN m) \ ks |-> m[x] ]

EmptyMap == [ x \in {} |-> 0 ]

(* RateLimitStore.increment: the store after the call and the record returned *)
incrementExpiresAtReset(store, key, windowMs, t) ==
    IF key \notin DOMAIN store \/ store[key].resetTime <= t
    THEN LET fresh == [ count |-> 1, resetTime |-> t + windowMs ]
         IN  [ store |-> MapSet(store, key, fresh), ret |-> fresh ]
    ELSE LET bumped == [ store[key] EXCEPT !.count = @ + 1 ]
         IN  [ store |-> MapSet(store, key, bumped), ret |-> bumped ]
increment(store, key, windowMs, t) ==
    IF key \notin DOMAIN store \/ store[key].resetTime < t
    THEN LET fresh == [ count |-> 1, resetTime |-> t + windowMs ]
         IN  [ store |-> MapSet(store, key, fresh), ret |-> fresh ]
    ELSE LET bumped == [ store[key] EXCEPT !.count = @ + 1 ]
         IN  [ store |-> MapSet(store, key, bumped), ret |-> bumped ]

(* the middleware's test `count > rule.max`: TRUE when the request is rejected *)
OverLimitOffByOne(count, max) == count >= max
OverLimit(count, max) == count > max

(* The window a request falls in, as the specification defines it: a window *)
(* is opened by the first request after the previous window's reset time    *)
(* and lasts windowMs; n numbers the requests of the window.                *)
SeenAfter(seen, key, windowMs, t) ==
    IF key \notin DOMAIN seen \/ seen[key].opened + windowMs < t
    THEN [ opened |-> t, n |-> 1 ]
    ELSE [ seen[key] EXCEPT !.n = @ + 1 ]

(* The interval [from, from + windowMs) under observation, if any, and the  *)
(* requests passed on to a handler inside it.                               *)
NoWatch == [ from |-> -1, accepted |-> 0 ]

WatchAfter(watch, windowMs, t, over) ==
    IF watch.from # -1 /\ t < watch.from + windowMs /\ ~over
    THEN [ watch EXCEPT !.accepted = @ + 1 ]
    ELSE watch

(* One request through the middleware returned by createRateLimiter(type). *)
RateLimiter(type, ip) ==
    LET rule == defaultRules[type]
        key  == RateKey(type, ip)
        r    == increment(rlStore, key, rule.windowMs, now)
        seen == SeenAfter(rlSeen, key, rule.windowMs, now)
        over == OverLimit(r.ret.count, rule.max)
    IN  /\ type = rlType
        /\ r.ret.count <= rule.max + MaxOver
        /\ rlStore' = r.store
        /\ rlSeen' = MapSet(rlSeen, key, seen)
        /\ rlLast' = [ key       |-> key,
                       n         |-> seen.n,
                       count     |-> r.ret.count,
                       resetTime |-> r.ret.resetTime,
                       remaining |-> IF rule.max - r.ret.count > 0
                                     THEN rule.max - r.ret.count ELSE 0,
                       rejected  |-> over,
                       next      |-> ~over ]
        /\ rlWatch' = WatchAfter(rlWatch, rule.windowMs, now, over)
        /\ UNCHANGED << clockVars, rlType, selVars, tableVars, sendVars, trackVars, routeVars, fnVars >>

(* The store's setInterval sweep: deletes the entries whose window is over. *)
RateLimitCleanup ==
    /\ \E k \in DOMAIN rlStore : rlStore[k].resetTime < now
    /\ rlStore' = MapDrop(rlStore, { k \in DOMAIN rlStore : rlStore[k].resetTime < now })
    /\ UNCHANGED << clockVars, rlType, rlSeen, rlLast, rlWatch, selVars, tableVars,
                    sendVars, trackVars, routeVars, fnVars >>

(* An observer starts to count: the interval begins now. *)
Watch ==
    /\ rlWatch = NoWatch
    /\ rlWatch' = [ from |-> now, accepted |-> 0 ]
    /\ UNCHANGED << clockVars, rlType, rlStore, rlSeen, rlLast, selVars, tableVars,
                    sendVars, trackVars, routeVars, fnVars >>

(* Time passes: by a millisecond, or by the length of the window under test. *)
RateTick ==
    /\ ticks < MaxTicks
    /\ \E d \in { 1, defaultRules[rlType].windowMs } : now' = now + d
    /\ ticks' = ticks + 1
    /\ UNCHANGED << rateVars, selVars, tableVars, sendVars, trackVars, routeVars, fnVars >>

----------------------------------------------------------------------------
(* Provider selector (utils/smtp-router getSmtpProvider) over the          *)
(* smtp_providers table.                                                   *)

None == << >>
Some(x) == << x >>

(* All orders in which the rows of a set can be returned. *)
Perms(S) ==
    { f \in [ 1..Cardinality(S) -> S ] :
        \A i, j \in 1..Cardinality(S) : i # j => f[i] # f[j] }

Rows(table) == { table[i] : i \in 1..Len(table) }

(* db.select().from(smtpProviders): no ORDER BY, the database returns the  *)
(* rows in any order.                                                      *)
getSmtpProviders(table) == Perms(Rows(table))

(* db.select()...where(region = r and isActive).orderBy(asc(priority)):    *)
(* rows of equal priority come in any order.                               *)
getSmtpProvidersByRegion(table, region) ==
    { s \in Perms({ p \in Rows(table) : p.region = region /\ p.isActive }) :
        \A i, j \in 1..Len(s) : i < j => s[i].priority <= s[j].priority }

(* Array.prototype.sort with the comparator (a, b) => dir * (a[f] - b[f]): *)
(* a stable sort (insertion of the head into the sorted tail).             *)
RECURSIVE sort(_, _, _)
sort(s, f, dir) ==
    IF s = << >> THEN << >>
    ELSE LET h    == Head(s)
             rest == sort(Tail(s), f, dir)
             at   == IF \E i \in 1..Len(rest) : dir * (h[f] - rest[i][f]) <= 0
                     THEN CHOOSE i \in 1..Len(rest) :
                            /\ dir * (h[f] - rest[i][f]) <= 0
                            /\ \A k \in 1..(i - 1) : dir * (h[f] - rest[k][f]) > 0
                     ELSE Len(rest) + 1
         IN  SubSeq(rest, 1, at - 1) \o << h >> \o SubSeq(rest, at, Len(rest))

(* the region tag of the recipient address *)
RegionOf(recipientEmail) ==
    IF includes(recipientEmail, << "+", "e", "u", "@" >>) THEN "EU"
    ELSE IF includes(recipientEmail, << "+", "a", "p", "a", "c", "@" >>) THEN "APAC"
    ELSE "NA"

HighVolume == 1000

(* getSmtpProvider, region's providers found: the branch on volume *)
PickInRegion(providers, volume) ==
    IF volume > HighVolume
    THEN LET high == SelectSeq(providers, LAMBDA p : p.maxSendsPerHour >= volume)
         IN  IF Len(high) > 0 THEN Some(high[1])
             ELSE Some(sort(providers, "maxSendsPerHour", -1)[1])
    ELSE Some(providers[1])

(* getSmtpProvider, no provider in the region: the global fallback *)
PickFallbackAnyState(allProviders) ==
    IF Len(allProviders) = 0 THEN None
    ELSE Some(sort(allProviders, "priority", 1)[1])
PickFallback(allProviders) ==
    LET activeProviders == SelectSeq(allProviders, LAMBDA p : p.isActive)
    IN  IF Len(activeProviders) = 0 THEN None
        ELSE Some(sort(activeProviders, "priority", 1)[1])

(* getSmtpProvider on one snapshot of the table: every result it can have *)
getSmtpProvider(table, recipientEmail, volume) ==
    { IF Len(providers) = 0 THEN PickFallback(allProviders)
      ELSE PickInRegion(providers, volume) :
        providers \in getSmtpProvidersByRegion(table, RegionOf(recipientEmail)),
        allProviders \in getSmtpProviders(table) }

(* The selector under test is called on the table as it stands. *)
Volumes == { 1, 1000, 1001, 5000, 7000 }
SelRecipients == Recipients

SelectProvider ==
    /\ Len(selOut) < 2
    /\ \E res \in getSmtpProvider(smtpProviders, selIn.to, selIn.volume) :
         selOut' = Append(selOut, res)
    /\ UNCHANGED << clockVars, rateVars, selIn, tableVars, sendVars, trackVars, routeVars, fnVars >>

(* the rows an admin surface may have put into smtp_providers *)
ProviderRows(id) ==
    [ id : {id}, region : { "NA", "EU" }, priority : { 1, 2 },
      isActive : BOOLEAN, maxSendsPerHour : { 2000, 6000 } ]

ProviderTables ==
    UNION { { t \in [ 1..n -> UNION { ProviderRows(i) : i \in 1..n } ] :
                \A i \in 1..n : t[i].id = i } : n \in 0..MaxProviders }

(* seedDatabase *)
SeedProviders ==
    << [ id |-> 1, region |-> "NA", priority |-> 1, isActive |-> TRUE,
         maxSendsPerHour |-> 5000 ],
       [ id |-> 2, region |-> "EU", priority |-> 1, isActive |-> TRUE,
         maxSendsPerHour |-> 3000 ],
       [ id |-> 3, region |-> "APAC", priority |-> 1, isActive |-> TRUE,
         maxSendsPerHour |-> 2000 ] >>

(* The seeded providers with the active flags an admin may have left them  *)
(* with: all active, the NA provider switched off, all switched off.       *)
ActiveFlags == { << TRUE, TRUE, TRUE >>, << FALSE, TRUE, TRUE >>,
                 << FALSE, FALSE, FALSE >> }

SeededTables ==
    { [ i \in 1..Len(SeedProviders) |-> [ SeedProviders[i] EXCEPT !.isActive = act[i] ] ] :
        act \in ActiveFlags }

SeedBlockedRegions ==
    << [ id |-> 1, regionCode |-> "CU", isActive |-> TRUE ],
       [ id |-> 2, regionCode |-> "IR", isActive |-> TRUE ],
       [ id |-> 3, regionCode |-> "KP", isActive |-> TRUE ] >>

----------------------------------------------------------------------------
(* Compliance gate.                                                        *)

(* Object.entries(countryMarkers), email.ts *)
countryMarkers ==
    << [ marker |-> << "c", "u" >>, code |-> "CU" ],
       [ marker |-> << "i", "r" >>, code |-> "IR" ],
       [ marker |-> << "k", "p" >>, code |-> "KP" ],
       [ marker |-> << "s", "y" >>, code |-> "SY" ],
       [ marker |-> << "u", "a" >>, code |-> "UA" ] >>

(* to.toLowerCase().includes(`+${marker}@`) || to.toLowerCase().includes(`.${marker}`) *)
MarkerMatchesCaseSensitive(to, marker) ==
    \/ includes(to, << "+" >> \o marker \o << "@" >>)
    \/ includes(to, << "." >> \o marker)
MarkerMatches(to, marker) ==
    \/ includes(toLowerCase(to), << "+" >> \o marker \o << "@" >>)
    \/ includes(toLowerCase(to), << "." >> \o marker)

(* the entries of countryMarkers, from the k-th on, that the address matches *)
MatchesFrom(to, k) ==
    { i \in k..Len(countryMarkers) : MarkerMatches(to, countryMarkers[i].marker) }

Min(S) == CHOOSE x \in S : \A y \in S : x <= y

(* DatabaseStorage.getBlockedRegionByCode: the active row of that code *)
getBlockedRegionByCode(table, regionCode) ==
    LET hit == SelectSeq(table, LAMBDA b : b.regionCode = regionCode /\ b.isActive)
    IN  IF Len(hit) = 0 THEN None ELSE Some(hit[1])

(* email.ts checkRegionCompliance on one state of the table, no lookup     *)
(* raising: TRUE when it answers allowed = false                           *)
ResolvesToBlocked(table, to) ==
    \E i \in 1..Len(countryMarkers) :
       /\ \/ includes(toLowerCase(to), << "+" >> \o countryMarkers[i].marker \o << "@" >>)
          \/ includes(toLowerCase(to), << "." >> \o countryMarkers[i].marker)
       /\ \E j \in 1..Len(table) :
             table[j].regionCode = countryMarkers[i].code /\ table[j].isActive

(* compliance.ts checkRegionCompliance(regionCode): the gate of the        *)
(* /api/compliance/check route; ok = FALSE when the lookup raises.         *)
checkRegionComplianceFailOpen(table, regionCode, ok) ==
    IF ~ok THEN [ allowed |-> TRUE, code |-> regionCode ]
    ELSE LET b == getBlockedRegionByCode(table, regionCode)
         IN  IF b # None /\ b[1].isActive
             THEN [ allowed |-> FALSE, code |-> b[1].regionCode ]
             ELSE [ allowed |-> TRUE, code |-> regionCode ]
checkRegionCompliance(table, regionCode, ok) ==
    IF ~ok THEN [ allowed |-> FALSE, code |-> regionCode ]
    ELSE LET b == getBlockedRegionByCode(table, regionCode)
         IN  IF b # None /\ b[1].isActive
             THEN [ allowed |-> FALSE, code |-> b[1].regionCode ]
             ELSE [ allowed |-> TRUE, code |-> regionCode ]

----------------------------------------------------------------------------
(* Delivery executor: processEmailSend (email.ts) and sendEmail            *)
(* (smtp-router), one task per slot.                                       *)

SendVolumes == { 1 }
TemplateIds == { 0, 1, 9 }      \* none given, the seeded template, an unknown id
ExistingTemplatesAny == TemplateIds
ExistingTemplates == { 1 }

(* what the request carries as content (lines 84-107): the id of a        *)
(* template that does not exist, nothing at all, or a body (its own html   *)
(* or text, or the seeded template)                                        *)
ContentOf(templateId, hasContent) ==
    IF templateId # 0
    THEN IF templateId \in { 1 } THEN "given" ELSE "unknown"
    ELSE IF hasContent THEN "given" ELSE "none"

(* the send requests of a behaviour in the order they arrive, each a task *)
(* of its own                                                              *)
Slots == { 1, 2 }

NoResult ==
    [ success |-> FALSE, emailId |-> 0, trackingId |-> 0, message |-> "",
      error |-> "", thrown |-> FALSE ]

IdleSend ==
    [ pc |-> "idle", rid |-> 0, to |-> << >>, volume |-> 0, k |-> 0,
      templateId |-> 0, provider |-> None, emailId |-> 0, session |-> 0,
      via |-> 0, cause |-> "", result |-> NoResult, log |-> << >>,
      blocked0 |-> FALSE, raised |-> "", content |-> "" ]

Logged(s, e) == Append(sends[s].log, e)

(* processEmailSend's catch: every error becomes a result value *)
OnErrorRethrow(message) ==
    [ NoResult EXCEPT !.thrown = TRUE, !.error = message ]
OnError(message) ==
    [ NoResult EXCEPT !.message = "Failed to process email request",
                      !.error = message ]

Fail(message, error) ==
    [ NoResult EXCEPT !.message = message, !.error = error ]

(* the call returns: its locals are gone, its result is with the route *)
Done(s, result, log) ==
    sends' = [ sends EXCEPT ![s] =
                 [ IdleSend EXCEPT !.pc = "done", !.rid = sends[s].rid,
                                   !.to = sends[s].to, !.volume = sends[s].volume,
                                   !.blocked0 = sends[s].blocked0,
                                   !.content = sends[s].content,
                                   !.raised = sends[s].raised,
                                   !.result = result, !.log = log ] ]

(* a call of the data store raised: processEmailSend's catch answers *)
Raised(s, call) ==
    sends' = [ sends EXCEPT ![s] =
                 [ IdleSend EXCEPT !.pc = "done", !.rid = sends[s].rid,
                                   !.to = sends[s].to, !.volume = sends[s].volume,
                                   !.blocked0 = sends[s].blocked0,
                                   !.content = sends[s].content,
                                   !.raised = call,
                                   !.result = OnError("db error"),
                                   !.log = sends[s].log ] ]

(* POST /api/email/send with a valid body: processEmailSend is called and  *)
(* runs up to its first await.                                             *)
StartSend(s, to, volume) ==
    /\ sends[s].pc = "idle"
    /\ s = nextSend + 1
    /\ nextSend' = nextSend + 1
    /\ sends' = [ sends EXCEPT ![s] =
                    [ IdleSend EXCEPT !.pc = "compliance", !.rid = s,
                                      !.to = to, !.volume = volume, !.k = 1,
                                      !.blocked0 =
                                         ResolvesToBlocked(blockedRegions, to) ] ]
    /\ UNCHANGED << clockVars, rateVars, selVars, tableVars, connections, transport,
                    trackVars, routeVars, fnVars >>

(* email.ts checkRegionCompliance: the lookup of the next marker the       *)
(* address matches.                                                        *)
ComplianceLookup(s) ==
    /\ sends[s].pc = "compliance"
    /\ MatchesFrom(sends[s].to, sends[s].k) # {}
    /\ LET i == Min(MatchesFrom(sends[s].to, sends[s].k))
           b == getBlockedRegionByCode(blockedRegions, countryMarkers[i].code)
       IN  \E ok \in BOOLEAN :
             IF ~ok
             THEN Raised(s, "getBlockedRegionByCode")
             ELSE IF b # None
             THEN Done(s, Fail("Recipient is in a blocked region", "Compliance violation"),
                       Logged(s, "blocked"))
             ELSE sends' = [ sends EXCEPT ![s].k = i + 1 ]
    /\ UNCHANGED << clockVars, rateVars, selVars, tableVars, connections, transport,
                    nextSend, trackVars, routeVars, fnVars >>

(* The check returned allowed: the tracking id is generated and the        *)
(* request's content decides the next step (lines 80-110).                 *)
ComplianceAllowed(s) ==
    /\ sends[s].pc = "compliance"
    /\ MatchesFrom(sends[s].to, sends[s].k) = {}
    /\ \E templateId \in TemplateIds, hasContent \in BOOLEAN :
         IF templateId # 0
         THEN sends' = [ sends EXCEPT ![s].pc = "template",
                                      ![s].templateId = templateId,
                                      ![s].content = ContentOf(templateId, hasContent),
                                      ![s].log = Logged(s, "allowed") ]
         ELSE IF ~hasContent
         THEN sends' = [ sends EXCEPT ![s] =
                           [ IdleSend EXCEPT
                               !.pc = "done", !.rid = sends[s].rid, !.to = sends[s].to,
                               !.volume = sends[s].volume,
                               !.blocked0 = sends[s].blocked0,
                               !.content = ContentOf(templateId, hasContent),
                               !.result = Fail("Email content is required",
                                   "Either html, text, or templateId must be provided"),
                               !.log = Logged(s, "allowed") ] ]
         ELSE sends' = [ sends EXCEPT ![s].pc = "select",
                                      ![s].content = ContentOf(templateId, hasContent),
                                      ![s].log = Logged(s, "allowed") ]
    /\ UNCHANGED << clockVars, rateVars, selVars, tableVars, connections, transport,
                    nextSend, trackVars, routeVars, fnVars >>

(* storage.getTemplate and the rendering of the two bodies (lines 87-99) *)
TemplateLookup(s) ==
    /\ sends[s].pc = "template"
    /\ \E ok \in BOOLEAN :
         IF ~ok THEN Raised(s, "getTemplate")
         ELSE IF sends[s].templateId \notin ExistingTemplates
         THEN Done(s, Fail("Template not found", "Template does not exist"), sends[s].log)
         ELSE sends' = [ sends EXCEPT ![s].pc = "select", ![s].templateId = 0 ]
    /\ UNCHANGED << clockVars, rateVars, selVars, tableVars, connections, transport,
                    nextSend, trackVars, routeVars, fnVars >>

(* DatabaseStorage.createEmail: the row inserted, status 'sent' *)
NewEmail(id, trackingId, to, providerId) ==
    [ id |-> id, trackingId |-> trackingId, to |-> to, smtpProviderId |-> providerId,
      status |-> "sent", deliveredAt |-> -1, openedAt |-> -1, clickedAt |-> -1 ]

(* DatabaseStorage.updateEmailStatus: sets the status whatever it was *)
updateEmailStatus(table, id, status, t) ==
    [ table EXCEPT ![id].status = status,
                   ![id].deliveredAt = IF status = "delivered" THEN t ELSE @ ]

(* lines 119-134: with a provider selected, the record is created first   *)
(* and sendEmail is called after it                                        *)
AfterSelectedSendFirst == "reselect"
AfterSelected == "create"

(* processEmailSend line 110, getSmtpProvider's query by region *)
SelectInRegion(s) ==
    /\ sends[s].pc = "select"
    /\ \E ok \in BOOLEAN :
         IF ~ok THEN Raised(s, "getSmtpProvidersByRegion")
         ELSE \E providers \in getSmtpProvidersByRegion(smtpProviders, RegionOf(sends[s].to)) :
                IF Len(providers) = 0
                THEN sends' = [ sends EXCEPT ![s].pc = "selectAll" ]
                ELSE sends' = [ sends EXCEPT
                                  ![s].pc = AfterSelected,
                                  ![s].provider = PickInRegion(providers, sends[s].volume),
                                  ![s].log = Logged(s, "select") ]
    /\ UNCHANGED << clockVars, rateVars, selVars, tableVars, connections, transport,
                    nextSend, trackVars, routeVars, fnVars >>

(* getSmtpProvider's fallback query, and lines 111-117 *)
SelectFallback(s) ==
    /\ sends[s].pc = "selectAll"
    /\ \E ok \in BOOLEAN :
         IF ~ok THEN Raised(s, "getSmtpProviders")
         ELSE \E allProviders \in getSmtpProviders(smtpProviders) :
                IF PickFallback(allProviders) = None
                THEN Done(s, Fail("No suitable SMTP provider available",
                                  "Failed to find an active SMTP provider for this request"),
                          sends[s].log)
                ELSE sends' = [ sends EXCEPT
                                  ![s].pc = AfterSelected,
                                  ![s].provider = PickFallback(allProviders),
                                  ![s].log = Logged(s, "select") ]
    /\ UNCHANGED << clockVars, rateVars, selVars, tableVars, connections, transport,
                    nextSend, trackVars, routeVars, fnVars >>

(* storage.createEmail (line 131), then sendEmail is entered *)
CreateEmail(s) ==
    /\ sends[s].pc = "create"
    /\ \E ok \in BOOLEAN :
         IF ~ok
         THEN /\ Raised(s, "createEmail")
              /\ UNCHANGED emails
         ELSE /\ emails' = Append(emails, NewEmail(Len(emails) + 1, sends[s].rid,
                                                   sends[s].to, sends[s].provider[1].id))
              /\ sends' = [ sends EXCEPT ![s].pc = "reselect",
                                         ![s].emailId = Len(emails) + 1,
                                         ![s].log = Logged(s, "create") ]
    /\ UNCHANGED << clockVars, rateVars, selVars, smtpProviders, blockedRegions,
                    trackingEvents, connections, transport, nextSend, trackVars, routeVars, fnVars >>

(* sendEmail's catch: the error becomes { success: false, error } and      *)
(* processEmailSend goes on to write status 'failed' (lines 144-146).      *)
SendFailedIgnored(s, cause, event) ==
    sends' = [ sends EXCEPT ![s].pc = "markSent", ![s].cause = cause,
                            ![s].log = Logged(s, event) ]
SendFailed(s, cause, event) ==
    sends' = [ sends EXCEPT ![s].pc = "markFailed", ![s].cause = cause,
                            ![s].log = Logged(s, event) ]

(* SmtpConnectionPool: maxConnectionAge, and the test of the sweep *)
maxConnectionAge == 5 * 60 * 1000

ExpiredAtAge(entry, t) == t - entry.lastUsed >= maxConnectionAge
Expired(entry, t) == t - entry.lastUsed > maxConnectionAge

(* `connection.lastUsed = new Date()` on a cached entry (lines 777-781) *)
TouchedNot(conns, id, t) == conns
Touched(conns, id, t) == [ conns EXCEPT ![id].lastUsed = t ]

(* `this.connections.set(provider.id, {...})` (lines 798-801) *)
CachedIfAbsent(conns, id, transporter, t) ==
    IF id \in DOMAIN conns THEN conns
    ELSE MapSet(conns, id, [ transporter |-> transporter, lastUsed |-> t ])
Cached(conns, id, transporter, t) ==
    MapSet(conns, id, [ transporter |-> transporter, lastUsed |-> t ])

(* SmtpConnectionPool.getConnection up to its await: a cached entry is     *)
(* refreshed and returned, otherwise a transport is created and verified.  *)
Acquire(s, p) ==
    IF p.id \in DOMAIN connections
    THEN /\ connections' = Touched(connections, p.id, now)
         /\ sends' = [ sends EXCEPT ![s].pc = "submit", ![s].via = p.id,
                                    ![s].session = connections[p.id].transporter ]
    ELSE /\ UNCHANGED connections
         /\ sends' = [ sends EXCEPT ![s].pc = "verify", ![s].via = p.id,
                                    ![s].session = sends[s].rid ]

(* sendEmail line 870, getSmtpProvider's query by region *)
SendSelectInRegion(s) ==
    /\ sends[s].pc = "reselect"
    /\ \E ok \in BOOLEAN :
         IF ~ok THEN SendFailed(s, "db error", "outcome") /\ UNCHANGED connections
         ELSE \E providers \in getSmtpProvidersByRegion(smtpProviders, RegionOf(sends[s].to)) :
                IF Len(providers) = 0
                THEN sends' = [ sends EXCEPT ![s].pc = "reselectAll" ]
                     /\ UNCHANGED connections
                ELSE Acquire(s, PickInRegion(providers, sends[s].volume)[1])
    /\ UNCHANGED << clockVars, rateVars, selVars, tableVars, transport, nextSend,
                    trackVars, routeVars, fnVars >>

(* getSmtpProvider's fallback query inside sendEmail, and lines 872-876 *)
SendSelectFallback(s) ==
    /\ sends[s].pc = "reselectAll"
    /\ \E ok \in BOOLEAN :
         IF ~ok THEN SendFailed(s, "db error", "outcome") /\ UNCHANGED connections
         ELSE \E allProviders \in getSmtpProviders(smtpProviders) :
                IF PickFallback(allProviders) = None
                THEN SendFailed(s, "No suitable SMTP provider found", "outcome")
                     /\ UNCHANGED connections
                ELSE Acquire(s, PickFallback(allProviders)[1])
    /\ UNCHANGED << clockVars, rateVars, selVars, tableVars, transport, nextSend,
                    trackVars, routeVars, fnVars >>

(* transporter.verify() of a new transport (lines 795-803) *)
Verify(s) ==
    /\ sends[s].pc = "verify"
    /\ \E ok \in BOOLEAN :
         /\ transport' = transport \cup
               { [ kind |-> "verify", rid |-> sends[s].rid, provider |-> sends[s].via,
                   ok |-> ok ] }
         /\ IF ok
            THEN /\ connections' = Cached(connections, sends[s].via,
                                          sends[s].session, now)
                 /\ sends' = [ sends EXCEPT ![s].pc = "submit" ]
            ELSE /\ UNCHANGED connections
                 /\ SendFailed(s, "verify failed", "outcome")
    /\ UNCHANGED << clockVars, rateVars, selVars, tableVars, nextSend, trackVars, routeVars, fnVars >>

(* transporter.sendMail (lines 891-913) *)
Submit(s) ==
    /\ sends[s].pc = "submit"
    /\ \E ok \in BOOLEAN :
         /\ transport' = transport \cup
               { [ kind |-> "sendMail", rid |-> sends[s].rid, provider |-> sends[s].via,
                   ok |-> ok ] }
         /\ IF ok
            THEN sends' = [ sends EXCEPT ![s].pc = "markSent",
                                         ![s].log = Logged(s, "outcome") ]
            ELSE SendFailed(s, "sendMail failed", "outcome")
    /\ UNCHANGED << clockVars, rateVars, selVars, tableVars, connections, nextSend,
                    trackVars, routeVars, fnVars >>

(* the pool's setInterval sweep (lines 765-773): deletes the entries last  *)
(* used more than maxConnectionAge ago                                     *)
PoolSweep ==
    /\ \E id \in DOMAIN connections : Expired(connections[id], now)
    /\ connections' = MapDrop(connections,
                              { id \in DOMAIN connections : Expired(connections[id], now) })
    /\ UNCHANGED << clockVars, rateVars, selVars, tableVars, transport, sends, nextSend,
                    trackVars, routeVars, fnVars >>

(* time passes while the pool holds an entry: by a millisecond, or by the  *)
(* age the sweep compares with                                             *)
PoolTick ==
    /\ ticks < MaxTicks
    /\ connections # EmptyMap
    /\ \E d \in { 1, maxConnectionAge } : now' = now + d
    /\ ticks' = ticks + 1
    /\ UNCHANGED << rateVars, selVars, tableVars, sendVars, trackVars, routeVars, fnVars >>

(* lines 144-155: the transport failed *)
MarkFailed(s) ==
    /\ sends[s].pc = "markFailed"
    /\ \E ok \in BOOLEAN :
         IF ~ok
         THEN /\ Raised(s, "updateEmailStatus")
              /\ UNCHANGED emails
         ELSE /\ emails' = updateEmailStatus(emails, sends[s].emailId, "failed", now)
              /\ Done(s, [ NoResult EXCEPT !.emailId = sends[s].emailId,
                                           !.trackingId = sends[s].rid,
                                           !.message = "Failed to send email",
                                           !.error = sends[s].cause ],
                      Logged(s, "status"))
    /\ UNCHANGED << clockVars, rateVars, selVars, smtpProviders, blockedRegions,
                    trackingEvents, connections, transport, nextSend, trackVars, routeVars, fnVars >>

(* lines 157-165: the transport accepted the message *)
MarkSent(s) ==
    /\ sends[s].pc = "markSent"
    /\ \E ok \in BOOLEAN :
         IF ~ok
         THEN /\ Raised(s, "updateEmailStatus")
              /\ UNCHANGED emails
         ELSE /\ emails' = updateEmailStatus(emails, sends[s].emailId, "sent", now)
              /\ Done(s, [ NoResult EXCEPT !.success = TRUE,
                                           !.emailId = sends[s].emailId,
                                           !.trackingId = sends[s].rid,
                                           !.message = "Email sent successfully" ],
                      Logged(s, "status"))
    /\ UNCHANGED << clockVars, rateVars, selVars, smtpProviders, blockedRegions,
                    trackingEvents, connections, transport, nextSend, trackVars, routeVars, fnVars >>

(* A delivery confirmation for a message the transport accepted: the       *)
(* storage.updateEmailStatus(id, 'delivered') of the data-access interface. *)
ConfirmDelivery(id) ==
    /\ emails[id].status # "delivered"
    /\ \E x \in transport :
         x.kind = "sendMail" /\ x.ok /\ x.rid = emails[id].trackingId
    /\ emails' = updateEmailStatus(emails, id, "delivered", now)
    /\ UNCHANGED << clockVars, rateVars, selVars, smtpProviders, blockedRegions,
                    trackingEvents, sendVars, trackVars, routeVars, fnVars >>

(* POST /api/compliance/region -> compliance.ts createBlockedRegion.       *)
(* region_code is unique: inserting a code that has an (inactive) row      *)
(* raises, and the service answers with a failure.                         *)
NewRegionCodes == { "UA", "CU" }

CreateBlockedRegion(regionCode, isActive) ==
    /\ getBlockedRegionByCode(blockedRegions, regionCode) = None
    /\ \A i \in 1..Len(blockedRegions) : blockedRegions[i].regionCode # regionCode
    /\ blockedRegions' = Append(blockedRegions,
                                [ id |-> Len(blockedRegions) + 1,
                                  regionCode |-> regionCode, isActive |-> isActive ])
    /\ UNCHANGED << clockVars, rateVars, selVars, smtpProviders, emails,
                    trackingEvents, sendVars, trackVars, routeVars, fnVars >>

(* DatabaseStorage.getBlockedRegion: the row of that id, active or not *)
getBlockedRegion(table, id) ==
    IF id \in 1..Len(table) THEN Some(table[id]) ELSE None

(* DatabaseStorage.updateSmtpProvider(id, { isActive }): the table after   *)
(* the update, and the updated row (None when no row has that id)          *)
updateSmtpProvider(table, id, isActive) ==
    IF id \in 1..Len(table)
    THEN [ table |-> [ table EXCEPT ![id].isActive = isActive ],
           row   |-> Some([ table[id] EXCEPT !.isActive = isActive ]) ]
    ELSE [ table |-> table, row |-> None ]

(* compliance.ts updateBlockedRegionStatus(id, isActive): what it leaves   *)
(* in the two tables and what it answers.  The update goes to              *)
(* storage.updateSmtpProvider (line 73).                                   *)
updateBlockedRegionStatus(regions, providers, id, isActive) ==
    IF getBlockedRegion(regions, id) = None
    THEN [ regions |-> regions, providers |-> providers, success |-> FALSE,
           message |-> "Blocked region not found" ]
    ELSE LET u == updateSmtpProvider(providers, id, isActive)
         IN  IF u.row = None
             THEN [ regions |-> regions, providers |-> providers, success |-> FALSE,
                    message |-> "Failed to update blocked region" ]
             ELSE [ regions |-> regions, providers |-> u.table, success |-> TRUE,
                    message |-> IF isActive THEN "Region activated successfully"
                                ELSE "Region deactivated successfully" ]

(* PUT /api/compliance/region/:id *)
RegionIds == { 1, 4, 9 }

UpdateBlockedRegionStatus(id, isActive) ==
    LET r == updateBlockedRegionStatus(blockedRegions, smtpProviders, id, isActive)
    IN  /\ blockedRegions' = r.regions
        /\ smtpProviders' = r.providers
        /\ regionLast' = [ id |-> id, isActive |-> isActive, success |-> r.success ]
        /\ UNCHANGED << clockVars, rateVars, selVars, emails, trackingEvents,
                        sendVars, trackVars, gateLast, fnVars >>

(* GET /api/compliance/check/:regionCode -> compliance.ts                  *)
(* checkRegionCompliance(regionCode.toUpperCase())                         *)
CheckedCodes == { << "i", "r" >>, << "U", "A" >>, << "s", "y" >> }

RECURSIVE Joined(_)
Joined(chars) == IF chars = << >> THEN "" ELSE Head(chars) \o Joined(Tail(chars))

UpperChar(c) ==
    IF \E i \in 1..Len(LowerChars) : LowerChars[i] = c
    THEN UpperChars[CHOOSE i \in 1..Len(LowerChars) : LowerChars[i] = c]
    ELSE c

toUpperCase(str) == [ i \in 1..Len(str) |-> UpperChar(str[i]) ]

CheckRegion(regionCode, ok) ==
    LET r == checkRegionCompliance(blockedRegions, Joined(toUpperCase(regionCode)), ok)
    IN  /\ gateLast' = [ regionCode |-> r.code, raised |-> ~ok, allowed |-> r.allowed ]
        /\ UNCHANGED << clockVars, rateVars, selVars, tableVars, sendVars, trackVars,
                        regionLast, fnVars >>

----------------------------------------------------------------------------
(* Tracking: trackEmailOpen and trackEmailClick (services/tracking), one   *)
(* task per slot, over DatabaseStorage.                                    *)

TrackSlots == { "t1", "t2" }
TrackTypes == { "opened", "clicked" }
TrackIds == { 1, 9 }             \* a record's tracking id and an unknown one
TrackUrls == { "", "/x" }        \* the url argument of a click

(* trackEmailClick's `url || '/'` *)
RedirectTargetRoot(url) == "/"
RedirectTarget(url) == IF url = "" THEN "/" ELSE url

NoTrackResult ==
    [ success |-> FALSE, alreadyTracked |-> FALSE, emailId |-> 0, redirectUrl |-> "" ]

IdleTrack ==
    [ pc |-> "idle", type |-> "opened", trackingId |-> 0, url |-> "", email |-> None,
      updated |-> 0, raised |-> FALSE, result |-> NoTrackResult, response |-> "" ]

(* DatabaseStorage.getEmailByTrackingId *)
getEmailByTrackingId(table, trackingId) ==
    LET hits == { id \in 1..Len(table) : table[id].trackingId = trackingId }
    IN  IF hits = {} THEN None ELSE Some(table[Min(hits)])

TrackColumn(type) == IF type = "opened" THEN "openedAt" ELSE "clickedAt"

(* DatabaseStorage.updateEmailTracking, the UPDATE ... WHERE trackingId    *)
(* AND <column> IS NULL RETURNING: one statement, the rows it changed      *)
updateEmailTrackingUnguarded(table, trackingId, type, t) ==
    LET col  == TrackColumn(type)
        hits == { id \in 1..Len(table) : table[id].trackingId = trackingId }
    IN  [ table   |-> [ id \in 1..Len(table) |->
                          IF id \in hits THEN [ table[id] EXCEPT ![col] = t ]
                          ELSE table[id] ],
          updated |-> IF hits = {} THEN 0 ELSE Min(hits) ]
updateEmailTracking(table, trackingId, type, t) ==
    LET col  == TrackColumn(type)
        hits == { id \in 1..Len(table) :
                    table[id].trackingId = trackingId /\ table[id][col] = -1 }
    IN  [ table   |-> [ id \in 1..Len(table) |->
                          IF id \in hits THEN [ table[id] EXCEPT ![col] = t ]
                          ELSE table[id] ],
          updated |-> IF hits = {} THEN 0 ELSE Min(hits) ]

(* DatabaseStorage.logTrackingEvent *)
logTrackingEvent(events, emailId, trackingId, eventType) ==
    Append(events, [ emailId |-> emailId, trackingId |-> trackingId,
                     eventType |-> eventType ])

(* the value a call returns: trackEmailClick's carries the redirect target *)
TrackResult(t, success, alreadyTracked, emailId) ==
    [ success |-> success, alreadyTracked |-> alreadyTracked, emailId |-> emailId,
      redirectUrl |-> IF trackers[t].type = "clicked"
                      THEN RedirectTarget(trackers[t].url) ELSE "" ]

(* the call returns: its locals are gone, its result is with the caller *)
TrackDone(t, result) ==
    trackers' = [ trackers EXCEPT ![t].pc = "done", ![t].result = result,
                                  ![t].email = None, ![t].updated = 0 ]

(* the catch blocks of trackEmailOpen and trackEmailClick *)
TrackError(t) ==
    trackers' = [ trackers EXCEPT ![t].pc = "done", ![t].raised = TRUE,
                                  ![t].result = TrackResult(t, FALSE, FALSE, 0),
                                  ![t].email = None, ![t].updated = 0 ]

(* a call of trackEmailOpen(trackingId) or trackEmailClick(trackingId, url) *)
StartTrack(t, type, trackingId, url) ==
    /\ trackers[t].pc \in { "idle", "done" }
    /\ nextTrack < MaxTracks
    /\ type = "opened" => url = ""
    /\ nextTrack' = nextTrack + 1
    /\ trackers' = [ trackers EXCEPT ![t] =
                       [ IdleTrack EXCEPT !.pc = "get", !.type = type,
                                          !.trackingId = trackingId, !.url = url ] ]
    /\ UNCHANGED << clockVars, rateVars, selVars, tableVars, sendVars,
                    systemMetrics, routeVars, fnVars >>

(* await storage.getEmailByTrackingId and the tests that follow it *)
TrackGetEmail(t) ==
    /\ trackers[t].pc = "get"
    /\ \E ok \in BOOLEAN :
         LET email == getEmailByTrackingId(emails, trackers[t].trackingId)
         IN  IF ~ok THEN TrackError(t)
             ELSE IF email = None THEN TrackDone(t, TrackResult(t, FALSE, FALSE, 0))
             ELSE IF trackers[t].type = "opened" /\ email[1].openedAt # -1
             THEN TrackDone(t, TrackResult(t, TRUE, TRUE, email[1].id))
             ELSE trackers' = [ trackers EXCEPT ![t].pc = "update",
                                                ![t].email = email ]
    /\ UNCHANGED << clockVars, rateVars, selVars, tableVars, sendVars,
                    nextTrack, systemMetrics, routeVars, fnVars >>

(* the result of trackEmailClick once the update returned *)
ClickResult(t, updated) ==
    TrackResult(t, updated # 0, trackers[t].email[1].clickedAt # -1,
                trackers[t].email[1].id)

(* await storage.updateEmailTracking: the UPDATE statement *)
TrackUpdate(t) ==
    /\ trackers[t].pc = "update"
    /\ \E ok \in BOOLEAN :
         LET r == updateEmailTracking(emails, trackers[t].trackingId,
                                      trackers[t].type, now)
         IN  IF ~ok THEN TrackError(t) /\ UNCHANGED emails
             ELSE /\ emails' = r.table
                  /\ IF r.updated # 0
                     THEN trackers' = [ trackers EXCEPT ![t].pc = "log",
                                                        ![t].updated = r.updated ]
                     ELSE IF trackers[t].type = "opened"
                     THEN TrackDone(t, TrackResult(t, FALSE, FALSE, 0))
                     ELSE TrackDone(t, ClickResult(t, 0))
    /\ UNCHANGED << clockVars, rateVars, selVars, smtpProviders, blockedRegions,
                    trackingEvents, sendVars, nextTrack, systemMetrics, routeVars, fnVars >>

(* updateEmailTracking, the awaited logTrackingEvent after a row changed *)
TrackLogEvent(t) ==
    /\ trackers[t].pc = "log"
    /\ \E ok \in BOOLEAN :
         IF ~ok THEN TrackError(t) /\ UNCHANGED trackingEvents
         ELSE /\ trackingEvents' = logTrackingEvent(trackingEvents, trackers[t].updated,
                                       trackers[t].trackingId, trackers[t].type)
              /\ IF trackers[t].type = "clicked" /\ trackers[t].email[1].clickedAt # -1
                 THEN TrackDone(t, ClickResult(t, trackers[t].updated))
                 ELSE trackers' = [ trackers EXCEPT ![t].pc = "metric" ]
    /\ UNCHANGED << clockVars, rateVars, selVars, smtpProviders, blockedRegions,
                    emails, sendVars, nextTrack, systemMetrics, routeVars, fnVars >>

(* await storage.createSystemMetric and the return after it *)
TrackMetric(t) ==
    /\ trackers[t].pc = "metric"
    /\ \E ok \in BOOLEAN :
         IF ~ok THEN TrackError(t) /\ UNCHANGED systemMetrics
         ELSE /\ systemMetrics' = Append(systemMetrics, "email_" \o trackers[t].type)
              /\ IF trackers[t].type = "opened"
                 THEN TrackDone(t, TrackResult(t, TRUE, FALSE, trackers[t].email[1].id))
                 ELSE TrackDone(t, ClickResult(t, trackers[t].updated))
    /\ UNCHANGED << clockVars, rateVars, selVars, tableVars, sendVars,
                    nextTrack, routeVars, fnVars >>

(* GET /api/tracking/open/:trackingId and /api/tracking/click/:trackingId *)
(* up to the call of the service: the rate limiter of the tracking class,  *)
(* then the test of the parameters.                                        *)
TrackingRoute(t, type, trackingId, url) ==
    LET rule == defaultRules["tracking"]
        key  == RateKey("tracking", CallerIp)
        r    == increment(rlStore, key, rule.windowMs, now)
        seen == SeenAfter(rlSeen, key, rule.windowMs, now)
        over == OverLimit(r.ret.count, rule.max)
        req  == [ IdleTrack EXCEPT !.type = type, !.trackingId = trackingId,
                                   !.url = url ]
    IN  /\ rlType = "tracking"
        /\ trackers[t].pc \in { "idle", "responded" }
        /\ nextTrack < MaxTracks
        /\ r.ret.count <= rule.max + MaxOver
        /\ type = "opened" => url = ""
        /\ nextTrack' = nextTrack + 1
        /\ rlStore' = r.store
        /\ rlSeen' = MapSet(rlSeen, key, seen)
        /\ rlLast' = [ key       |-> key,
                       n         |-> seen.n,
                       count     |-> r.ret.count,
                       resetTime |-> r.ret.resetTime,
                       remaining |-> IF rule.max - r.ret.count > 0
                                     THEN rule.max - r.ret.count ELSE 0,
                       rejected  |-> over,
                       next      |-> ~over ]
        /\ rlWatch' = WatchAfter(rlWatch, rule.windowMs, now, over)
        /\ trackers' = [ trackers EXCEPT ![t] =
              IF over
              THEN [ req EXCEPT !.pc = "responded", !.response = "429" ]
              ELSE IF type = "clicked" /\ url = ""
              THEN [ req EXCEPT !.pc = "responded", !.response = "400" ]
              ELSE [ req EXCEPT !.pc = "get" ] ]
        /\ UNCHANGED << clockVars, rlType, selVars, tableVars, sendVars,
                        systemMetrics, routeVars, fnVars >>

(* the routes after the service returned: the 1x1 image for an open, the   *)
(* redirect to result.redirectUrl for a click                              *)
TrackRespond(t) ==
    /\ trackers[t].pc = "done"
    /\ trackers' = [ trackers EXCEPT
                       ![t].pc = "responded",
                       ![t].response = IF trackers[t].type = "opened" THEN "pixel"
                                       ELSE "redirect:" \o trackers[t].result.redirectUrl ]
    /\ UNCHANGED << clockVars, rateVars, selVars, tableVars, sendVars,
                    nextTrack, systemMetrics, routeVars, fnVars >>

(* time passes between two steps: new Date() gives a later instant *)
Tick ==
    /\ ticks < MaxTicks
    /\ now' = now + 1
    /\ ticks' = ticks + 1
    /\ UNCHANGED << rateVars, selVars, tableVars, sendVars, trackVars, routeVars, fnVars >>

----------------------------------------------------------------------------
(* Template rendering: processTemplate (email.ts), on strings as sequences *)
(* of characters.                                                          *)

Whitespace == { " " }

RECURSIVE TrimStart(_)
TrimStart(str) ==
    IF str # << >> /\ Head(str) \in Whitespace THEN TrimStart(Tail(str)) ELSE str

RECURSIVE TrimEnd(_)
TrimEnd(str) ==
    IF str # << >> /\ str[Len(str)] \in Whitespace
    THEN TrimEnd(SubSeq(str, 1, Len(str) - 1)) ELSE str

(* String.prototype.trim *)
trim(str) == TrimEnd(TrimStart(str))

(* what every object inherits from Object.prototype; one member stands for *)
(* them all, its value converted to a string is written as one character   *)
ObjectPrototype ==
    { [ name |-> << "v", "a", "l", "u", "e", "O", "f" >>, value |-> << "#" >> ] }

(* variables[name]: the own property, else an inherited one, else undefined *)
PropertyOf(variables, name) ==
    LET own       == { v \in variables : v.name = name }
        inherited == { v \in ObjectPrototype : v.name = name }
    IN  IF own # {} THEN Some((CHOOSE v \in own : TRUE).value)
        ELSE IF inherited # {} THEN Some((CHOOSE v \in inherited : TRUE).value)
        ELSE None

(* the regular expression \{\{([^}]+)\}\} tried at position i: the position  *)
(* of the last character of the match, 0 when it does not match there      *)
MatchEnd(content, i) ==
    IF i + 1 <= Len(content) /\ content[i] = "{" /\ content[i + 1] = "{"
    THEN LET closing == { j \in (i + 2)..Len(content) : content[j] = "}" }
         IN  IF closing = {} THEN 0
             ELSE LET j == Min(closing)
                  IN  IF j > i + 2 /\ j + 1 <= Len(content) /\ content[j + 1] = "}"
                      THEN j + 1 ELSE 0
    ELSE 0

(* the callback of replace: `variables[variable.trim()] || match` *)
Replacement(variables, match) ==
    LET v == PropertyOf(variables, trim(SubSeq(match, 3, Len(match) - 2)))
    IN  IF v # None /\ v[1] # << >> THEN v[1] ELSE match

(* content.replace(/.../g, callback) from position i on *)
RECURSIVE ReplaceFrom(_, _, _)
ReplaceFrom(content, variables, i) ==
    IF i > Len(content) THEN << >>
    ELSE LET e == MatchEnd(content, i)
         IN  IF e = 0
             THEN << content[i] >> \o ReplaceFrom(content, variables, i + 1)
             ELSE Replacement(variables, SubSeq(content, i, e))
                    \o ReplaceFrom(content, variables, e + 1)

processTemplate(content, variables) == ReplaceFrom(content, variables, 1)

(* the bodies and variable maps the renderer is called with *)
Fragments ==
    { << "{", "{", "a", "}", "}" >>,
      << "{", "{", " ", "a", " ", "}", "}" >>,
      << "{", "{", "b", "}", "}" >>,
      << "{", "{", "v", "a", "l", "u", "e", "O", "f", "}", "}" >>,
      << "{", "{", "}", "}" >>,
      << "{" >>, << "}" >>, << "t" >> }

RECURSIVE Flatten(_)
Flatten(parts) == IF parts = << >> THEN << >> ELSE Head(parts) \o Flatten(Tail(parts))

Bodies == { Flatten(parts) : parts \in UNION { [ 1..n -> Fragments ] : n \in 0..MaxParts } }

Variable(name, value) == [ name |-> name, value |-> value ]

VariableMaps ==
    { {},
      { Variable(<< "a" >>, << "x" >>) },
      { Variable(<< "a" >>, << >>) },
      { Variable(<< "a" >>, << "{", "{", "b", "}", "}" >>), Variable(<< "b" >>, << "y" >>) },
      { Variable(<< "a" >>, << "{", "{", "a", "}", "}" >>) },
      { Variable(<< "a" >>, << "{" >>), Variable(<< "b" >>, << "}", "}" >>) } }

(* one rendering: of the body first, of the previous rendering after that *)
Render ==
    /\ Len(tplOut) < 2
    /\ tplOut' = Append(tplOut,
                        processTemplate(IF tplOut = << >> THEN tplIn.body
                                        ELSE tplOut[Len(tplOut)],
                                        tplIn.variables))
    /\ UNCHANGED << clockVars, rateVars, selVars, tableVars, sendVars, trackVars,
                    routeVars, tplIn, statsOut, injectVars, templateVars >>

----------------------------------------------------------------------------
(* Tracking injection of sendEmail (storage.ts 878-889).  An HTML body is  *)
(* a sequence of pieces: text, the closing body tag, an anchor, the pixel. *)
(* A piece is marked when its text contains 'tracking-pixel'.              *)

Text       == [ kind |-> "text", href |-> << >>, marked |-> FALSE ]
TextMarked == [ kind |-> "text", href |-> << >>, marked |-> TRUE ]   \* text that says tracking-pixel
CloseBody  == [ kind |-> "/body", href |-> << >>, marked |-> FALSE ] \* </body>
Anchor(url) == [ kind |-> "a", href |-> url, marked |-> FALSE ]      \* <a href="url"
AnchorOther(url) == [ kind |-> "a-other", href |-> url, marked |-> FALSE ]
                                                  \* <a class="c" href="url", <a href='url'

(* the <img ... class="tracking-pixel" /> of line 881 *)
TrackingPixel == [ kind |-> "img", href |-> << "open" >>, marked |-> TRUE ]

(* html.includes('tracking-pixel') *)
IncludesTrackingPixel(html) == \E i \in 1..Len(html) : html[i].marked

(* html.replace('</body>', pixel + '</body>'): the first occurrence only *)
InsertPixel(html) ==
    LET at == { i \in 1..Len(html) : html[i].kind = "/body" }
    IN  IF at = {} THEN html
        ELSE SubSeq(html, 1, Min(at) - 1) \o << TrackingPixel >>
               \o SubSeq(html, Min(at), Len(html))

(* the click endpoint with ?url=encodeURIComponent(url): a URL again, with *)
(* no quote in it                                                          *)
TrackingUrl(url) == << "click" >> \o url

(* html.replace(/<a\s+href="([^"]+)"/gi, ...) *)
WrapLinks(html) ==
    [ i \in 1..Len(html) |->
        IF html[i].kind = "a" /\ html[i].href # << >>
        THEN Anchor(TrackingUrl(html[i].href))
        ELSE html[i] ]

InjectTracking(html) ==
    WrapLinks(IF IncludesTrackingPixel(html) THEN html ELSE InsertPixel(html))

HtmlPieces == { Text, TextMarked, CloseBody, Anchor(<< "u" >>), Anchor(<< >>),
                AnchorOther(<< "u" >>) }

HtmlBodies == UNION { [ 1..n -> HtmlPieces ] : n \in 0..MaxTokens }

(* one application: to the body first, to the previous result after that *)
Inject ==
    /\ Len(htmlOut) < 2
    /\ htmlOut' = Append(htmlOut, InjectTracking(IF htmlOut = << >> THEN htmlIn
                                                 ELSE htmlOut[Len(htmlOut)]))
    /\ UNCHANGED << clockVars, rateVars, selVars, tableVars, sendVars, trackVars,
                    routeVars, tplIn, tplOut, statsOut, htmlIn, templateVars >>

----------------------------------------------------------------------------
(* Templates: createTemplate and updateTemplate (services/template.ts).   *)

(* what createTemplate / updateTemplate answered *)
NoTemplateResult == [ asked |-> FALSE, success |-> FALSE, message |-> "", templateId |-> 0 ]

TemplateResult(success, message, templateId) ==
    [ asked |-> TRUE, success |-> success, message |-> message, templateId |-> templateId ]

(* [...content.matchAll(variableRegex)].map(match => match[1].trim()), as a set *)
RECURSIVE VariablesFrom(_, _)
VariablesFrom(content, i) ==
    IF i > Len(content) THEN {}
    ELSE LET e == MatchEnd(content, i)
         IN  IF e = 0 THEN VariablesFrom(content, i + 1)
             ELSE { trim(SubSeq(content, i + 2, e - 2)) } \cup VariablesFrom(content, e + 1)

(* htmlVariables.filter(v => !textVariables.includes(v)) *)
missingVariables(htmlContent, textContent) ==
    VariablesFrom(htmlContent, 1) \ VariablesFrom(textContent, 1)

TemplateContents ==
    { << >>,
      << "x" >>,
      << "{", "{", "a", "}", "}" >>,
      << "{", "{", " ", "a", " ", "}", "}" >>,
      << "{", "{", "a", "}", "}", "{", "{", "b", "}", "}" >> }

(* createTemplate: validation, then the insert, which may raise *)
CreateTemplate(htmlContent, textContent) ==
    /\ Len(templates) < MaxTemplates
    /\ IF missingVariables(htmlContent, textContent) # {}
       THEN /\ tmplLast' = TemplateResult(FALSE,
                    "HTML and text template versions have mismatched variables", 0)
            /\ UNCHANGED templates
       ELSE \E ok \in BOOLEAN :
              IF ok
              THEN /\ templates' = Append(templates, [ htmlContent |-> htmlContent,
                                                       textContent |-> textContent ])
                   /\ tmplLast' = TemplateResult(TRUE, "Template created successfully",
                                                 Len(templates) + 1)
              ELSE /\ tmplLast' = TemplateResult(FALSE, "Failed to create template", 0)
                   /\ UNCHANGED templates
    /\ UNCHANGED << clockVars, rateVars, selVars, tableVars, sendVars, trackVars,
                    routeVars, tplIn, tplOut, statsOut, injectVars >>

(* the bodies of PUT /api/template/:id: each content given or left out *)
UpdateRequests ==
    { r \in [ htmlContent : { None } \cup { Some(c) : c \in TemplateContents },
              textContent : { None } \cup { Some(c) : c \in TemplateContents } ] :
        r.htmlContent # None \/ r.textContent # None }

(* `request.htmlContent && request.textContent`: both given and not empty *)
BothGiven(request) ==
    /\ request.htmlContent # None /\ request.htmlContent[1] # << >>
    /\ request.textContent # None /\ request.textContent[1] # << >>

(* DatabaseStorage.updateTemplate: sets the columns the request carries *)
updateTemplateRow(row, request) ==
    [ htmlContent |-> IF request.htmlContent # None THEN request.htmlContent[1]
                      ELSE row.htmlContent,
      textContent |-> IF request.textContent # None THEN request.textContent[1]
                      ELSE row.textContent ]

UpdateIds == 1..MaxTemplates

(* updateTemplate: the lookup, the validation when both contents are given, *)
(* the update; either store call may raise                                  *)
UpdateTemplate(id, request) ==
    /\ \E okGet, okSet \in BOOLEAN :
         IF ~okGet
         THEN /\ tmplLast' = TemplateResult(FALSE, "Failed to update template", 0)
              /\ UNCHANGED templates
         ELSE IF id \notin 1..Len(templates)
         THEN /\ tmplLast' = TemplateResult(FALSE, "Template not found", 0)
              /\ UNCHANGED templates
         ELSE IF BothGiven(request)
                 /\ missingVariables(request.htmlContent[1], request.textContent[1]) # {}
         THEN /\ tmplLast' = TemplateResult(FALSE,
                      "HTML and text template versions have mismatched variables", 0)
              /\ UNCHANGED templates
         ELSE IF ~okSet
         THEN /\ tmplLast' = TemplateResult(FALSE, "Failed to update template", 0)
              /\ UNCHANGED templates
         ELSE /\ templates' = [ templates EXCEPT ![id] = updateTemplateRow(@, request) ]
              /\ tmplLast' = TemplateResult(TRUE, "Template updated successfully", id)
    /\ UNCHANGED << clockVars, rateVars, selVars, tableVars, sendVars, trackVars,
                    routeVars, tplIn, tplOut, statsOut, injectVars >>

----------------------------------------------------------------------------
(* Statistics: getEmailStatistics (email.ts). A number is kept as the      *)
(* fraction num/den it was computed as; den = 0 is what a division by zero *)
(* yields (NaN or Infinity).                                               *)

Zero == [ num |-> 0, den |-> 1 ]

(* before the dashboard asked *)
NoStats ==
    [ totalSent |-> 0, deliveryRate |-> Zero, openRate |-> Zero, clickRate |-> Zero,
      regionData |-> << >>, providerData |-> << >>, asked |-> FALSE, raised |-> FALSE ]

(* (count / total) * 100 *)
Percent(count, total) == [ num |-> count * 100, den |-> total ]

(* total ? (count / total) * 100 : 0 *)
RateUnguarded(count, total) == Percent(count, total)
Rate(count, total) == IF total # 0 THEN Percent(count, total) ELSE Zero

StatsLimit == 1000

(* DatabaseStorage.getEmails(limit): newest first, at most limit rows *)
getEmails(table, limit) ==
    [ i \in 1..Min({ Len(table), limit }) |-> table[Len(table) + 1 - i] ]

(* the keys of a counting object, in the order they were first written *)
RECURSIVE KeysOf(_)
KeysOf(keys) ==
    IF keys = << >> THEN << >>
    ELSE LET before == KeysOf(SubSeq(keys, 1, Len(keys) - 1))
             last   == keys[Len(keys)]
         IN  IF \E i \in 1..Len(before) : before[i] = last THEN before
             ELSE Append(before, last)

(* Object.entries(counts).map(...).sort((a, b) => b.count - a.count) *)
Breakdown(keys, totalSent) ==
    LET names == KeysOf(keys)
    IN  sort([ i \in 1..Len(names) |->
                 LET count == Cardinality({ k \in 1..Len(keys) : keys[k] = names[i] })
                 IN  [ key |-> names[i], count |-> count,
                       percentage |-> Percent(count, totalSent) ] ],
             "count", -1)

DeliveredEquivalent(email) == email.status \in { "delivered", "opened", "clicked" }

(* a provider is named by its id here *)
ProviderKeys(list, providers) ==
    LET found == SelectSeq(list, LAMBDA email :
                     /\ email.smtpProviderId # 0
                     /\ \E i \in 1..Len(providers) : providers[i].id = email.smtpProviderId)
    IN  [ i \in 1..Len(found) |-> found[i].smtpProviderId ]

getEmailStatistics(table, providers) ==
    LET list      == getEmails(table, StatsLimit)
        totalSent == Len(list)
        delivered == Cardinality({ i \in 1..Len(list) : DeliveredEquivalent(list[i]) })
        opened    == Cardinality({ i \in 1..Len(list) : list[i].openedAt # -1 })
        clicked   == Cardinality({ i \in 1..Len(list) : list[i].clickedAt # -1 })
    IN  [ totalSent    |-> totalSent,
          deliveryRate |-> Rate(delivered, totalSent),
          openRate     |-> Rate(opened, delivered),
          clickRate    |-> Rate(clicked, opened),
          regionData   |-> Breakdown([ i \in 1..Len(list) |-> list[i].region ], totalSent),
          providerData |-> Breakdown(ProviderKeys(list, providers), totalSent),
          asked |-> TRUE, raised |-> FALSE ]

(* the columns of an emails row the aggregator reads; the seeded providers *)
(* are 1 (NA) and 2 (EU), 9 is a provider that is not in the table         *)
StatRows(id) ==
    [ id : { id }, status : { "sent", "failed", "delivered", "opened" },
      region : { "NA", "EU" }, smtpProviderId : { 1, 9 },
      openedAt : { -1, 0 }, clickedAt : { -1, 0 } ]

StatTables ==
    UNION { { t \in [ 1..n -> UNION { StatRows(i) : i \in 1..n } ] :
                \A i \in 1..n : t[i].id = i } : n \in 0..MaxEmails }

(* one call of the dashboard: either read of the store may raise *)
GetEmailStatistics ==
    /\ ~ statsOut.asked
    /\ \E ok \in BOOLEAN :
         statsOut' = IF ok THEN getEmailStatistics(emails, smtpProviders)
                     ELSE [ NoStats EXCEPT !.asked = TRUE, !.raised = TRUE ]
    /\ UNCHANGED << clockVars, rateVars, selVars, tableVars, sendVars, trackVars,
                    routeVars, tplIn, tplOut, injectVars, templateVars >>

----------------------------------------------------------------------------
(* Initial states.                                                         *)

InitClock == now = 0 /\ ticks = 0

InitRateIdle ==
    /\ rlStore = EmptyMap
    /\ rlSeen = EmptyMap
    /\ rlWatch = NoWatch
    /\ rlLast = [ key |-> RateKey("", ""), n |-> 0, count |-> 0, resetTime |-> 0,
                  remaining |-> 0, rejected |-> FALSE, next |-> FALSE ]

InitSelIdle ==
    /\ selIn = [ to |-> AddrPlain, volume |-> 1 ]
    /\ selOut = << >>

InitTables ==
    /\ smtpProviders \in SeededTables
    /\ blockedRegions = SeedBlockedRegions
    /\ emails = << >>
    /\ trackingEvents = << >>

InitSend ==
    /\ connections = EmptyMap
    /\ transport = {}
    /\ sends = [ s \in Slots |-> IdleSend ]
    /\ nextSend = 0

InitTrack ==
    /\ trackers = [ t \in TrackSlots |-> IdleTrack ]
    /\ nextTrack = 0
    /\ systemMetrics = << >>

InitRoute ==
    /\ gateLast = [ regionCode |-> "", raised |-> FALSE, allowed |-> TRUE ]
    /\ regionLast = [ id |-> 0, isActive |-> FALSE, success |-> FALSE ]

InitInjectIdle ==
    /\ htmlIn = << >>
    /\ htmlOut = << >>

InitTemplatesIdle ==
    /\ templates = << >>
    /\ tmplLast = NoTemplateResult

InitFnIdle ==
    /\ tplIn = [ body |-> << >>, variables |-> {} ]
    /\ tplOut = << >>
    /\ statsOut = NoStats
    /\ InitInjectIdle
    /\ InitTemplatesIdle

----------------------------------------------------------------------------
(* The rate limiter on its own: one middleware, requests and time.         *)

InitRL ==
    /\ InitClock
    /\ rlType \in RuleTypes
    /\ InitRateIdle /\ InitSelIdle /\ InitTables /\ InitSend /\ InitTrack /\ InitRoute
    /\ InitFnIdle

NextRL ==
    \/ RateLimiter(rlType, CallerIp)
    \/ RateLimitCleanup
    \/ RateTick

SpecRL == InitRL /\ [][NextRL]_vars

(* The limiter of the api class with an observer that picks, once, the     *)
(* instant at which an interval of one window length begins.               *)
InitWatch ==
    /\ InitClock
    /\ rlType = "api"
    /\ InitRateIdle /\ InitSelIdle
    /\ smtpProviders = SeedProviders
    /\ blockedRegions = SeedBlockedRegions
    /\ emails = << >>
    /\ trackingEvents = << >>
    /\ InitSend /\ InitTrack /\ InitRoute /\ InitFnIdle

NextWatch ==
    \/ RateLimiter(rlType, CallerIp)
    \/ RateLimitCleanup
    \/ RateTick
    \/ Watch

SpecWatch == InitWatch /\ [][NextWatch]_vars

----------------------------------------------------------------------------
(* The selector on its own: a table and an input drawn at the start, and   *)
(* two calls on that snapshot.                                             *)

InitSel ==
    /\ InitClock
    /\ rlType = "api"
    /\ InitRateIdle
    /\ selIn \in [ to : SelRecipients, volume : Volumes ]
    /\ selOut = << >>
    /\ smtpProviders \in ProviderTables
    /\ blockedRegions = SeedBlockedRegions
    /\ emails = << >>
    /\ trackingEvents = << >>
    /\ InitSend /\ InitTrack /\ InitRoute
    /\ InitFnIdle

NextSel == SelectProvider

SpecSel == InitSel /\ [][NextSel]_vars

----------------------------------------------------------------------------
(* The send pipeline: concurrent sends, the blocked-region admin route and *)
(* delivery confirmations.                                                 *)

Init ==
    /\ InitClock
    /\ rlType = "api"
    /\ InitRateIdle /\ InitSelIdle /\ InitTables /\ InitSend /\ InitTrack /\ InitRoute
    /\ InitFnIdle

Next ==
    \/ \E s \in Slots, to \in Recipients, volume \in SendVolumes : StartSend(s, to, volume)
    \/ \E s \in Slots : ComplianceLookup(s)
    \/ \E s \in Slots : ComplianceAllowed(s)
    \/ \E s \in Slots : TemplateLookup(s)
    \/ \E s \in Slots : SelectInRegion(s)
    \/ \E s \in Slots : SelectFallback(s)
    \/ \E s \in Slots : CreateEmail(s)
    \/ \E s \in Slots : SendSelectInRegion(s)
    \/ \E s \in Slots : SendSelectFallback(s)
    \/ \E s \in Slots : Verify(s)
    \/ \E s \in Slots : Submit(s)
    \/ \E s \in Slots : MarkFailed(s)
    \/ \E s \in Slots : MarkSent(s)
    \/ \E id \in 1..Len(emails) : ConfirmDelivery(id)
    \/ \E regionCode \in NewRegionCodes, isActive \in BOOLEAN :
         CreateBlockedRegion(regionCode, isActive)

Spec == Init /\ [][Next]_vars

(* The pipeline over the seeded tables with the clock and the sweep of the *)
(* connection pool.  The sweep is a setInterval callback: it is run again  *)
(* and again for as long as the process lives.                             *)
InitPool ==
    /\ InitClock
    /\ rlType = "api"
    /\ InitRateIdle /\ InitSelIdle
    /\ smtpProviders = SeedProviders
    /\ blockedRegions = SeedBlockedRegions
    /\ emails = << >>
    /\ trackingEvents = << >>
    /\ InitSend /\ InitTrack /\ InitRoute /\ InitFnIdle

NextPool ==
    \/ \E s \in Slots, to \in PoolRecipients, volume \in SendVolumes :
         StartSend(s, to, volume)
    \/ \E s \in Slots : ComplianceLookup(s)
    \/ \E s \in Slots : ComplianceAllowed(s)
    \/ \E s \in Slots : TemplateLookup(s)
    \/ \E s \in Slots : SelectInRegion(s)
    \/ \E s \in Slots : CreateEmail(s)
    \/ \E s \in Slots : SendSelectInRegion(s)
    \/ \E s \in Slots : Verify(s)
    \/ \E s \in Slots : Submit(s)
    \/ \E s \in Slots : MarkFailed(s)
    \/ \E s \in Slots : MarkSent(s)
    \/ PoolSweep
    \/ PoolTick

SpecPool == InitPool /\ [][NextPool]_vars /\ WF_vars(PoolSweep)

(* The same pipeline with its scheduling: the event loop runs every        *)
(* continuation of a request whose awaited store call has settled.  The    *)
(* answers of the outbound transport (verify at line 795, sendMail at 891) *)
(* are awaited with no timer beside them, so they are not the program's to *)
(* give: SpecLive leaves them to the transport, SpecLiveAnswered is the    *)
(* pipeline in front of a transport that always answers.                   *)
SendStep(s) ==
    \/ ComplianceLookup(s) \/ ComplianceAllowed(s) \/ TemplateLookup(s)
    \/ SelectInRegion(s) \/ SelectFallback(s) \/ CreateEmail(s)
    \/ SendSelectInRegion(s) \/ SendSelectFallback(s)
    \/ MarkFailed(s) \/ MarkSent(s)

TransportAnswer(s) == Verify(s) \/ Submit(s)

NextLive ==
    \/ \E s \in Slots, to \in Recipients, volume \in SendVolumes : StartSend(s, to, volume)
    \/ \E s \in Slots : SendStep(s)
    \/ \E s \in Slots : TransportAnswer(s)

SpecLive == Init /\ [][NextLive]_vars /\ \A s \in Slots : WF_vars(SendStep(s))

SpecLiveAnswered == SpecLive /\ \A s \in Slots : WF_vars(TransportAnswer(s))

----------------------------------------------------------------------------
(* Tracking on its own: two records already sent, tracking calls on the   *)
(* id of the first and on an unknown id, and time.  The clock is read only *)
(* by the UPDATE of updateEmailTracking, so it advances only while a call  *)
(* is about to make it.                                                    *)

SentEmails == << NewEmail(1, 1, AddrPlain, 1), NewEmail(2, 2, AddrApacSyUa, 3) >>

InitTracking ==
    /\ InitClock
    /\ rlType = "tracking"
    /\ InitRateIdle
    /\ InitSelIdle
    /\ smtpProviders = SeedProviders
    /\ blockedRegions = SeedBlockedRegions
    /\ emails = SentEmails
    /\ trackingEvents = << >>
    /\ InitSend
    /\ InitTrack
    /\ InitRoute
    /\ InitFnIdle

NextTrack ==
    \/ \E t \in TrackSlots, type \in TrackTypes, trackingId \in TrackIds,
            url \in TrackUrls : StartTrack(t, type, trackingId, url)
    \/ \E t \in TrackSlots : TrackGetEmail(t)
    \/ \E t \in TrackSlots : TrackUpdate(t)
    \/ \E t \in TrackSlots : TrackLogEvent(t)
    \/ \E t \in TrackSlots : TrackMetric(t)
    \/ (\E t \in TrackSlots : trackers[t].pc = "update") /\ Tick

SpecTrack == InitTracking /\ [][NextTrack]_vars

----------------------------------------------------------------------------
(* The tracking routes: requests of one caller through the rate limiter   *)
(* of the tracking class, which has seen nothing from the caller yet or    *)
(* all but one of the requests its window allows.                          *)

EarlierRequests == { 0, TrackingMax - 1 }

InitTrackingRoutes ==
    /\ InitClock
    /\ rlType = "tracking"
    /\ \E n \in EarlierRequests :
         LET key == RateKey("tracking", CallerIp)
             w   == defaultRules["tracking"].windowMs
         IN  /\ rlStore = IF n = 0 THEN EmptyMap
                          ELSE MapSet(EmptyMap, key, [ count |-> n, resetTime |-> w ])
             /\ rlSeen = IF n = 0 THEN EmptyMap
                         ELSE MapSet(EmptyMap, key, [ opened |-> 0, n |-> n ])
    /\ rlLast = [ key |-> RateKey("", ""), n |-> 0, count |-> 0, resetTime |-> 0,
                  remaining |-> 0, rejected |-> FALSE, next |-> FALSE ]
    /\ rlWatch = NoWatch
    /\ InitSelIdle
    /\ smtpProviders = SeedProviders
    /\ blockedRegions = SeedBlockedRegions
    /\ emails = SentEmails
    /\ trackingEvents = << >>
    /\ InitSend
    /\ InitTrack
    /\ InitRoute
    /\ InitFnIdle

NextTrackingRoutes ==
    \/ \E t \in TrackSlots, type \in TrackTypes, trackingId \in TrackIds,
            url \in TrackUrls : TrackingRoute(t, type, trackingId, url)
    \/ \E t \in TrackSlots : TrackGetEmail(t)
    \/ \E t \in TrackSlots : TrackUpdate(t)
    \/ \E t \in TrackSlots : TrackLogEvent(t)
    \/ \E t \in TrackSlots : TrackMetric(t)
    \/ \E t \in TrackSlots : TrackRespond(t)

SpecTrackingRoutes == InitTrackingRoutes /\ [][NextTrackingRoutes]_vars

----------------------------------------------------------------------------
(* The renderer on its own: a body and a variable map, rendered twice.    *)

InitRender ==
    /\ InitClock
    /\ rlType = "api"
    /\ InitRateIdle /\ InitSelIdle
    /\ smtpProviders = SeedProviders
    /\ blockedRegions = SeedBlockedRegions
    /\ emails = << >>
    /\ trackingEvents = << >>
    /\ InitSend /\ InitTrack /\ InitRoute
    /\ tplIn \in [ body : Bodies, variables : VariableMaps ]
    /\ tplOut = << >>
    /\ statsOut = NoStats
    /\ InitInjectIdle
    /\ InitTemplatesIdle

NextRender == Render

SpecRender == InitRender /\ [][NextRender]_vars

----------------------------------------------------------------------------
(* The injector on its own: an HTML body, processed twice.                 *)

InitInject ==
    /\ InitClock
    /\ rlType = "api"
    /\ InitRateIdle /\ InitSelIdle
    /\ smtpProviders = SeedProviders
    /\ blockedRegions = SeedBlockedRegions
    /\ emails = << >>
    /\ trackingEvents = << >>
    /\ InitSend /\ InitTrack /\ InitRoute
    /\ tplIn = [ body |-> << >>, variables |-> {} ]
    /\ tplOut = << >>
    /\ statsOut = NoStats
    /\ htmlIn \in HtmlBodies
    /\ htmlOut = << >>
    /\ InitTemplatesIdle

NextInject == Inject

SpecInject == InitInject /\ [][NextInject]_vars

----------------------------------------------------------------------------
(* The template service on its own, from an empty table.                   *)

InitTemplates ==
    /\ InitClock
    /\ rlType = "api"
    /\ InitRateIdle /\ InitSelIdle
    /\ smtpProviders = SeedProviders
    /\ blockedRegions = SeedBlockedRegions
    /\ emails = << >>
    /\ trackingEvents = << >>
    /\ InitSend /\ InitTrack /\ InitRoute /\ InitFnIdle

NextTemplates ==
    \/ \E htmlContent, textContent \in TemplateContents :
         CreateTemplate(htmlContent, textContent)
    \/ \E id \in UpdateIds, request \in UpdateRequests : UpdateTemplate(id, request)

SpecTemplates == InitTemplates /\ [][NextTemplates]_vars

----------------------------------------------------------------------------
(* The aggregator on its own: one call over a table of rows.               *)

InitStats ==
    /\ InitClock
    /\ rlType = "api"
    /\ InitRateIdle /\ InitSelIdle
    /\ smtpProviders = SeedProviders
    /\ blockedRegions = SeedBlockedRegions
    /\ emails \in StatTables
    /\ trackingEvents = << >>
    /\ InitSend /\ InitTrack /\ InitRoute /\ InitFnIdle

NextStats == GetEmailStatistics

SpecStats == InitStats /\ [][NextStats]_vars

----------------------------------------------------------------------------
(* The compliance gate of both paths: one send, the blocked-region admin  *)
(* routes and the compliance-check route.                                  *)

NextGate ==
    \/ \E to \in Recipients, volume \in SendVolumes : StartSend(1, to, volume)
    \/ ComplianceLookup(1)
    \/ ComplianceAllowed(1)
    \/ TemplateLookup(1)
    \/ SelectInRegion(1)
    \/ SelectFallback(1)
    \/ CreateEmail(1)
    \/ SendSelectInRegion(1)
    \/ SendSelectFallback(1)
    \/ Verify(1)
    \/ Submit(1)
    \/ MarkFailed(1)
    \/ MarkSent(1)
    \/ \E regionCode \in NewRegionCodes, isActive \in BOOLEAN :
         CreateBlockedRegion(regionCode, isActive)
    \/ \E id \in RegionIds, isActive \in BOOLEAN : UpdateBlockedRegionStatus(id, isActive)
    \/ \E regionCode \in CheckedCodes, ok \in BOOLEAN : CheckRegion(regionCode, ok)

SpecGate == Init /\ [][NextGate]_vars


----------------------------------------------------------------------------
(* Properties.                                                             *)

TransportOf(rid) == { x \in transport : x.rid = rid }
RecordsOf(rid) == { id \in 1..Len(emails) : emails[id].trackingId = rid }

\* C1: for every rate-limit key and window, the N-th request of the window
\* is passed on to the handler iff N <= max of its class (api 100, email
\* 1000, tracking 500); later requests of the window get the 429 answer and
\* do not reach the handler.
C1_AcceptedIffWithinMax ==
    rlLast.n > 0 =>
        /\ rlLast.next <=> rlLast.n <= defaultRules[rlLast.key[1]].max
        /\ rlLast.rejected <=> ~rlLast.next

C1_Witness ==
    /\ rlLast.key = RateKey("email", CallerIp)
    /\ rlLast.n = EmailMax + 1
    /\ rlLast.rejected /\ ~rlLast.next
    /\ ticks > 0

\* C2: a send whose recipient resolved to an actively blocked region code
\* when it was made never reaches the transport and ends in a failure,
\* whatever the other request does meanwhile.
C2_BlockedNeverSubmitted ==
    \A s \in Slots :
        sends[s].blocked0 =>
            /\ sends[s].pc \in { "compliance", "done" }
            /\ TransportOf(sends[s].rid) = {}
            /\ sends[s].pc = "done" => ~sends[s].result.success

C2_Witness ==
    \E s, r \in Slots :
        /\ sends[s].to = AddrEuIr /\ sends[s].blocked0
        /\ sends[s].pc = "done"
        /\ sends[s].result.message = "Recipient is in a blocked region"
        /\ \E x \in TransportOf(sends[r].rid) : x.kind = "sendMail"

\* C4: the status of an email record never moves backwards in the order
\* sent < delivered < opened < clicked, except to failed.
StatusRank(status) ==
    CASE status = "sent" -> 1
      [] status = "delivered" -> 2
      [] status = "opened" -> 3
      [] status = "clicked" -> 4
      [] OTHER -> 0

SendSteps == << "allowed", "select", "create", "outcome", "status" >>

IsPrefix(l, m) == Len(l) <= Len(m) /\ \A i \in 1..Len(l) : l[i] = m[i]

C5_StepOrder ==
    \A s \in Slots :
        LET t == sends[s] IN
        /\ t.log = << "blocked" >> \/ IsPrefix(t.log, SendSteps)
        /\ t.pc \in { "template", "select", "selectAll" } => t.log = << "allowed" >>
        /\ t.pc = "create" => t.log = << "allowed", "select" >>
        /\ RecordsOf(t.rid) # {} <=> Len(t.log) >= 3
        /\ TransportOf(t.rid) # {} => RecordsOf(t.rid) # {}
        /\ t.pc \in { "verify", "submit" } => Len(t.log) = 3
        /\ (\E id \in RecordsOf(t.rid) : emails[id].status = "failed") => Len(t.log) = 5

C5_Witness ==
    \E s \in Slots :
        /\ sends[s].pc = "done" /\ sends[s].result.success
        /\ sends[s].log = SendSteps
        /\ \E x \in TransportOf(sends[s].rid) : x.kind = "sendMail" /\ x.ok

\* C6 as claimed: whenever the transport step of a send fails, the record
\* ends failed and the result is a failure carrying the emailId, the
\* trackingId and the cause, with nothing thrown.
TransportFailed(rid) == \E x \in TransportOf(rid) : ~x.ok

C6_TransportFailureMarksFailed ==
    \A s \in Slots :
        (sends[s].pc = "done" /\ TransportFailed(sends[s].rid)) =>
            LET res == sends[s].result IN
            /\ ~res.thrown /\ ~res.success
            /\ res.emailId \in RecordsOf(sends[s].rid)
            /\ res.trackingId = sends[s].rid
            /\ res.error \in { "verify failed", "sendMail failed" }
            /\ emails[res.emailId].status = "failed"

\* C6 amended: whenever the transport step of a send fails, nothing is
\* thrown and the result is a failure; if the status write that follows
\* succeeds the record ends failed and the result carries the emailId, the
\* trackingId and the cause, and if that write itself raises the record
\* keeps status sent and the result is the generic failure without ids.
C6_TransportFailureAmended ==
    \A s \in Slots :
        (sends[s].pc = "done" /\ TransportFailed(sends[s].rid)) =>
            LET res == sends[s].result IN
            /\ ~res.thrown /\ ~res.success
            /\ IF sends[s].raised = "updateEmailStatus"
               THEN /\ res.emailId = 0 /\ res.trackingId = 0
                    /\ res.message = "Failed to process email request"
                    /\ \A id \in RecordsOf(sends[s].rid) : emails[id].status = "sent"
               ELSE /\ res.emailId \in RecordsOf(sends[s].rid)
                    /\ res.trackingId = sends[s].rid
                    /\ res.error \in { "verify failed", "sendMail failed" }
                    /\ emails[res.emailId].status = "failed"

C6_Witness ==
    \E s \in Slots :
        /\ sends[s].pc = "done"
        /\ \E x \in TransportOf(sends[s].rid) : x.kind = "sendMail" /\ ~x.ok
        /\ sends[s].result.emailId \in RecordsOf(sends[s].rid)
        /\ emails[sends[s].result.emailId].status = "failed"

\* C7: processEmailSend never throws: whichever collaborator fails, the
\* call completes with a result value carrying a message.
C7_NeverThrows ==
    \A s \in Slots :
        /\ ~sends[s].result.thrown
        /\ sends[s].pc = "done" => sends[s].result.message # ""
        /\ sends[s].raised # "" => sends[s].pc = "done" /\ ~sends[s].result.success

C7_Witness ==
    \E s, r \in Slots :
        /\ sends[s].pc = "done" /\ sends[s].raised = "updateEmailStatus"
        /\ sends[r].pc = "done" /\ sends[r].raised = "createEmail"
        /\ sends[s].result.message = "Failed to process email request"

\* C8: when the blocked-region lookup raises, the compliance-check gate
\* answers not allowed, and a send whose lookup raised ends in a failure
\* with no record created and nothing handed to the transport.
C8_LookupFailureFailsClosed ==
    /\ gateLast.raised => ~gateLast.allowed
    /\ \A s \in Slots :
         sends[s].raised = "getBlockedRegionByCode" =>
            /\ sends[s].pc = "done" /\ ~sends[s].result.success
            /\ RecordsOf(sends[s].rid) = {}
            /\ TransportOf(sends[s].rid) = {}

C8_Witness ==
    /\ gateLast.raised /\ gateLast.regionCode = "UA" /\ ~gateLast.allowed
    /\ \A b \in Rows(blockedRegions) : b.regionCode # "UA"
    /\ sends[1].raised = "getBlockedRegionByCode"
    /\ sends[1].to = AddrApacSyUa

\* C9: two calls of getSmtpProvider with the same recipient, the same
\* volume and the same provider table return the same provider.
C9_SameSnapshotSameProvider ==
    Len(selOut) = 2 => selOut[1] = selOut[2]

\* C10: for volume <= 1000 the selector returns an active provider with
\* the lowest priority number among the active providers of the
\* recipient's region, or among all active providers when that region has
\* none, and nothing only when no provider is active; a returned provider
\* is always an active row of the table.
C10_LowVolumeLowestPriority ==
    LET active   == { p \in Rows(smtpProviders) : p.isActive }
        inRegion == { p \in active : p.region = RegionOf(selIn.to) }
        pool     == IF inRegion # {} THEN inRegion ELSE active
    IN  \A i \in 1..Len(selOut) :
            /\ selOut[i] # None => selOut[i][1] \in active
            /\ selIn.volume <= HighVolume =>
                 IF pool = {} THEN selOut[i] = None
                 ELSE /\ selOut[i] # None
                      /\ selOut[i][1] \in pool
                      /\ \A p \in pool : selOut[i][1].priority <= p.priority

C10_Witness ==
    /\ selIn.volume = HighVolume
    /\ RegionOf(selIn.to) = "EU"
    /\ Len(selOut) = 1 /\ selOut[1] # None
    /\ selOut[1][1].region = "NA" /\ selOut[1][1].isActive
    /\ \E p \in Rows(smtpProviders) :
         p.region = "EU" /\ ~p.isActive /\ p.priority < selOut[1][1].priority

\* C3: for every email record, whatever open and click tracking calls run
\* and however they interleave, a non-null openedAt or clickedAt is never
\* changed to another value and never reset to null.
C3_TimestampsWrittenOnce ==
    [][ \A id \in 1..Len(emails) :
          /\ emails[id].openedAt # -1 => emails'[id].openedAt = emails[id].openedAt
          /\ emails[id].clickedAt # -1 => emails'[id].clickedAt = emails[id].clickedAt
      ]_vars

C3_Witness ==
    \E t \in TrackSlots, id \in 1..Len(emails) :
        /\ emails[id].trackingId = trackers[t].trackingId
        /\ trackers[t].pc = "done" /\ trackers[t].type = "opened"
        /\ ~trackers[t].raised /\ ~trackers[t].result.success
        /\ emails[id].openedAt # -1 /\ emails[id].openedAt < now

\* C11: for volume > 1000, over the resolved provider set (the active
\* providers of the recipient's region, or all active providers when the
\* region has none), the selector returns a provider of lowest priority
\* number among those with capacity >= volume when there is one, and
\* otherwise a provider whose capacity is the greatest of the set.
C11_HighVolumeByCapacity ==
    LET active     == { p \in Rows(smtpProviders) : p.isActive }
        inRegion   == { p \in active : p.region = RegionOf(selIn.to) }
        pool       == IF inRegion # {} THEN inRegion ELSE active
        qualifying == { p \in pool : p.maxSendsPerHour >= selIn.volume }
    IN  (selIn.volume > HighVolume /\ pool # {}) =>
          \A i \in 1..Len(selOut) :
             /\ selOut[i] # None
             /\ selOut[i][1] \in pool
             /\ IF qualifying # {}
                THEN /\ selOut[i][1] \in qualifying
                     /\ \A p \in qualifying : selOut[i][1].priority <= p.priority
                ELSE \A p \in pool : selOut[i][1].maxSendsPerHour >= p.maxSendsPerHour

\* C12: a send that passed the compliance check and carries no content,
\* names a template that does not exist, or finds no active provider at
\* all, ends with success=false and the reason of its case, without an
\* email record and without a transport attempt; once it has ended it
\* takes no further step (nothing is retried).
EndsWith(s, message) ==
    /\ ~sends[s].result.success /\ ~sends[s].result.thrown
    /\ sends[s].result.message = message
    /\ sends[s].result.error # ""
    /\ sends[s].result.emailId = 0
    /\ RecordsOf(sends[s].rid) = {}
    /\ TransportOf(sends[s].rid) = {}

TerminalErrorFrame ==
    \A s \in Slots :
        (sends[s].pc = "done" /\ sends[s].raised = "" /\ sends[s].content # "") =>
            /\ sends[s].content = "none" => EndsWith(s, "Email content is required")
            /\ sends[s].content = "unknown" => EndsWith(s, "Template not found")
            /\ (sends[s].content = "given"
                  /\ \A p \in Rows(smtpProviders) : ~p.isActive)
                 => EndsWith(s, "No suitable SMTP provider available")

C12_TerminalErrorsLeaveNoTrace ==
    /\ []TerminalErrorFrame
    /\ [][ \A s \in Slots : sends[s].pc = "done" => sends'[s] = sends[s] ]_vars

C12_Witness ==
    \E s, r \in Slots :
        /\ sends[s].pc = "done" /\ sends[s].content = "unknown"
        /\ sends[s].result.message = "Template not found"
        /\ sends[r].pc = "done" /\ sends[r].content = "given"
        /\ sends[r].raised = ""
        /\ sends[r].result.message = "No suitable SMTP provider available"
        /\ emails = << >> /\ transport = {}

\* C13 as claimed: every request to a tracking endpoint gets its
\* caller-visible response whatever happens internally: the 1x1 image for
\* an open, and for a click carrying a url the redirect to exactly that url.
ExpectedResponse(t) ==
    IF trackers[t].type = "opened" THEN "pixel" ELSE "redirect:" \o trackers[t].url

C13_TrackingAlwaysResponds ==
    \A t \in TrackSlots :
        (trackers[t].pc = "responded"
           /\ (trackers[t].type = "clicked" => trackers[t].url # "")) =>
            trackers[t].response = ExpectedResponse(t)

\* C13 amended: every tracking request that the rate limiter passes on to
\* the handler gets the 1x1 image (open) or the redirect to exactly its url
\* (click carrying a url), also when the trackingId is unknown, the data
\* store fails or the update is a repeat; a request beyond the limit of
\* the tracking class gets the 429 answer instead.
C13_TrackingRespondsUnlessLimited ==
    \A t \in TrackSlots :
        (trackers[t].pc = "responded"
           /\ (trackers[t].type = "clicked" => trackers[t].url # "")) =>
            \/ trackers[t].response = ExpectedResponse(t)
            \/ /\ trackers[t].response = "429"
               /\ rlStore[RateKey("tracking", CallerIp)].count > TrackingMax
               /\ trackers[t].result = NoTrackResult

C13_Witness ==
    \E t, u \in TrackSlots :
        /\ trackers[t].pc = "responded" /\ trackers[t].type = "clicked"
        /\ trackers[t].raised /\ trackers[t].url = "/x"
        /\ trackers[t].response = "redirect:/x"
        /\ trackers[u].pc = "responded" /\ trackers[u].response = "429"

\* C14: for a known trackingId, once the calls of trackEmailOpen have all
\* returned and none met a store error, exactly one call reports a first-time open
\* (success, not alreadyTracked) and one 'opened' event is appended; every
\* other call reports success with alreadyTracked.
KnownTrackIds == { emails[id].trackingId : id \in 1..Len(emails) }

EventsOf(trackingId, eventType) ==
    { i \in 1..Len(trackingEvents) :
        /\ trackingEvents[i].trackingId = trackingId
        /\ trackingEvents[i].eventType = eventType }

FirstTimeOpen(t) ==
    /\ trackers[t].pc = "done" /\ trackers[t].type = "opened"
    /\ trackers[t].result.success /\ ~trackers[t].result.alreadyTracked

C14_ExactlyOneFirstOpen ==
    ((\A u \in TrackSlots : trackers[u].pc = "done" /\ ~trackers[u].raised)
       /\ nextTrack = Cardinality(TrackSlots)) =>
        \A t \in TrackSlots :
            (trackers[t].pc = "done" /\ trackers[t].type = "opened"
               /\ trackers[t].trackingId \in KnownTrackIds) =>
                /\ trackers[t].result.success
                /\ Cardinality(EventsOf(trackers[t].trackingId, "opened")) = 1
                /\ \A u \in TrackSlots \ { t } :
                     (FirstTimeOpen(t) /\ FirstTimeOpen(u)) =>
                        trackers[u].trackingId # trackers[t].trackingId

\* C15: every call of trackEmailClick for a known trackingId appends one
\* 'clicked' event, the first click and every repeat alike, clickedAt being
\* set by the first only; every call returns as redirect target the given
\* url, or '/' when the url is empty.
C15_EveryClickLogged ==
    ((\A t \in TrackSlots : trackers[t].pc = "done" /\ ~trackers[t].raised)
       /\ nextTrack = Cardinality(TrackSlots)) =>
        /\ \A t \in TrackSlots :
             trackers[t].type = "clicked" =>
                trackers[t].result.redirectUrl =
                    (IF trackers[t].url = "" THEN "/" ELSE trackers[t].url)
        /\ \A k \in KnownTrackIds :
             Cardinality(EventsOf(k, "clicked")) =
                Cardinality({ t \in TrackSlots : /\ trackers[t].type = "clicked"
                                                 /\ trackers[t].trackingId = k })

\* C16: rendering is idempotent: rendering the result of a rendering
\* again with the same variables gives the same text, also when a value
\* contains placeholder text.
C16_RenderIdempotent ==
    Len(tplOut) = 2 => tplOut[2] = tplOut[1]

\* C17: rendering replaces every {{name}} placeholder whose name is a key
\* of the variable map by that key's value, the empty string included,
\* leaves every other placeholder as written and changes nothing outside
\* placeholders.
RECURSIVE Substituted(_, _, _)
Substituted(content, variables, i) ==
    IF i > Len(content) THEN << >>
    ELSE LET e    == MatchEnd(content, i)
             keys == IF e = 0 THEN {}
                     ELSE { v \in variables :
                              v.name = trim(SubSeq(content, i + 2, e - 2)) }
         IN  IF e = 0 THEN << content[i] >> \o Substituted(content, variables, i + 1)
             ELSE (IF keys # {} THEN (CHOOSE v \in keys : TRUE).value
                   ELSE SubSeq(content, i, e))
                    \o Substituted(content, variables, e + 1)

C17_RenderSubstitutesKeys ==
    Len(tplOut) >= 1 => tplOut[1] = Substituted(tplIn.body, tplIn.variables, 1)

\* C18: getEmailStatistics answers 0 for a rate whose denominator is 0:
\* deliveryRate with no records, openRate with no delivered-equivalent
\* record, clickRate with no opened record; with no records the three
\* rates are 0 and both breakdowns are empty; and no rate or percentage it
\* returns is the result of a division by zero.
Numbers(stats) ==
    { stats.deliveryRate, stats.openRate, stats.clickRate }
      \cup { stats.regionData[i].percentage : i \in 1..Len(stats.regionData) }
      \cup { stats.providerData[i].percentage : i \in 1..Len(stats.providerData) }

C18_ZeroDenominatorRates ==
    (statsOut.asked /\ ~ statsOut.raised) =>
        /\ Len(emails) = 0 =>
             /\ statsOut.deliveryRate = Zero /\ statsOut.openRate = Zero
             /\ statsOut.clickRate = Zero
             /\ statsOut.regionData = << >> /\ statsOut.providerData = << >>
        /\ (\A i \in 1..Len(emails) : ~ DeliveredEquivalent(emails[i]))
             => statsOut.openRate = Zero
        /\ (\A i \in 1..Len(emails) : emails[i].openedAt = -1)
             => statsOut.clickRate = Zero
        /\ \A n \in Numbers(statsOut) : n.den # 0

C18_Witness ==
    /\ statsOut.asked /\ ~ statsOut.raised
    /\ Len(emails) > 0
    /\ \A i \in 1..Len(emails) : ~ DeliveredEquivalent(emails[i])
    /\ \E i \in 1..Len(emails) : emails[i].clickedAt # -1
    /\ \A i \in 1..Len(emails) : emails[i].openedAt = -1
    /\ statsOut.regionData # << >>

C20_IncrementWindows ==
    [][ rlLast' # rlLast =>
          LET key      == rlLast'.key
              windowMs == defaultRules[rlType].windowMs
              stored   == rlStore'[key]
          IN  /\ key \in DOMAIN rlStore'
              /\ IF key \notin DOMAIN rlStore \/ rlStore[key].resetTime < now
                 THEN stored = [ count |-> 1, resetTime |-> now + windowMs ]
                 ELSE /\ stored.count = rlStore[key].count + 1
                      /\ stored.resetTime = rlStore[key].resetTime
              /\ rlLast'.count = stored.count
              /\ rlLast'.resetTime = stored.resetTime ]_vars

C20_Witness ==
    /\ rlLast.key \in DOMAIN rlStore
    /\ rlLast.count = defaultRules[rlType].max + 2
    /\ rlStore[rlLast.key].count = rlLast.count
    /\ now = rlLast.resetTime

\* C21: the rate limiter is a sliding window: in every interval of length
\* windowMs, wherever it begins, at most max requests of a key are passed
\* on to the handler.
C21_SlidingWindow ==
    rlWatch.accepted <= defaultRules[rlType].max

\* C22: getConnection with an entry for the provider id returns that
\* entry's session, creates and verifies no session and sets the entry's
\* last-used time to now; with no entry it creates a session and stores it
\* only after its verification succeeded; a failed verification is raised
\* and leaves the map as it was.
Selecting == { "reselect", "reselectAll" }

C22_AcquireCachedOrVerified ==
    [][ \A s \in Slots :
          LET id == sends'[s].via IN
          /\ (sends[s].pc \in Selecting /\ sends'[s].pc = "submit") =>
                /\ id \in DOMAIN connections
                /\ sends'[s].session = connections[id].transporter
                /\ transport' = transport
                /\ connections' = [ connections EXCEPT ![id].lastUsed = now ]
          /\ (sends[s].pc \in Selecting /\ sends'[s].pc = "verify") =>
                /\ id \notin DOMAIN connections
                /\ connections' = connections
          /\ (sends[s].pc = "verify" /\ sends'[s].pc = "submit") =>
                /\ \E x \in transport' :
                      x.kind = "verify" /\ x.rid = sends[s].rid /\ x.ok
                /\ id \in DOMAIN connections'
                /\ connections'[id] = [ transporter |-> sends[s].session,
                                        lastUsed |-> now ]
          /\ (sends[s].pc = "verify" /\ sends'[s].pc = "markFailed") =>
                /\ connections' = connections
                /\ sends'[s].cause = "verify failed" ]_vars

C22_Witness ==
    \E s \in Slots :
        /\ sends[s].pc = "submit"
        /\ sends[s].session # sends[s].rid
        /\ sends[s].via \in DOMAIN connections
        /\ connections[sends[s].via].lastUsed = now
        /\ now = maxConnectionAge

\* C23: a sweep of the pool removes exactly the entries last used more than
\* 5 minutes ago: an entry used within the last 5 minutes survives every
\* sweep, and an entry that stays unused past 5 minutes is eventually
\* removed by a sweep.
C23_SweepEvictsIdle ==
    /\ [][ (\E id \in DOMAIN connections : id \notin DOMAIN connections') =>
             /\ DOMAIN connections' =
                   { id \in DOMAIN connections :
                       now - connections[id].lastUsed <= 5 * 60 * 1000 }
             /\ \A id \in DOMAIN connections' : connections'[id] = connections[id] ]_vars
    /\ \A id \in 1..Len(SeedProviders) :
          (id \in DOMAIN connections /\ now - connections[id].lastUsed > 5 * 60 * 1000)
            ~> (id \notin DOMAIN connections
                  \/ now - connections[id].lastUsed <= 5 * 60 * 1000)

C23_Witness ==
    /\ now > 5 * 60 * 1000
    /\ \E id, kept \in 1..Len(SeedProviders) :
          /\ id \notin DOMAIN connections
          /\ \E x \in transport : x.kind = "verify" /\ x.provider = id /\ x.ok
          /\ kept \in DOMAIN connections
          /\ now - connections[kept].lastUsed = 5 * 60 * 1000

\* C24: acquires for one provider that interleave while the pool has no
\* entry for it each create their own session; every caller submits with a
\* session that passed verification; each store overwrites the entry of
\* that provider id only, so the map ends with the session written last;
\* entries of other provider ids are left alone.
VerifiedSessions(id) ==
    { x.rid : x \in { y \in transport : y.kind = "verify" /\ y.provider = id /\ y.ok } }

C24_RacingAcquires ==
    /\ [](\A s \in Slots :
            /\ sends[s].pc = "verify" => sends[s].session = sends[s].rid
            /\ sends[s].pc = "submit" => sends[s].session \in VerifiedSessions(sends[s].via))
    /\ [](\A id \in DOMAIN connections :
            connections[id].transporter \in VerifiedSessions(id))
    /\ [][ \A s \in Slots :
             (sends[s].pc = "verify" /\ sends'[s].pc = "submit") =>
                /\ connections'[sends[s].via].transporter = sends[s].session
                /\ \A id \in DOMAIN connections' :
                      id # sends[s].via =>
                         id \in DOMAIN connections /\ connections'[id] = connections[id]
                /\ DOMAIN connections' = DOMAIN connections \cup { sends[s].via } ]_vars

C24_Witness ==
    /\ ticks = 0
    /\ \A s \in Slots : sends[s].pc = "done" /\ sends[s].result.success
    /\ \E id \in DOMAIN connections :
          /\ Cardinality(VerifiedSessions(id)) = Cardinality(Slots)
          /\ connections[id].transporter \in VerifiedSessions(id)

\* C25: tracking injection is idempotent: the injector applied to a body
\* it has already processed leaves the body unchanged (one pixel, every
\* link wrapped exactly once, the links in their order).
C25_InjectionIdempotent ==
    Len(htmlOut) = 2 => htmlOut[2] = htmlOut[1]

\* C26: after any sequence of createTemplate and updateTemplate calls,
\* updates that carry one content only included, every placeholder name of
\* a stored template's HTML body also occurs in its text body.
C26_HtmlVariablesInText ==
    \A id \in 1..Len(templates) :
        missingVariables(templates[id].htmlContent, templates[id].textContent) = {}

\* C27: a failure of the metric write never changes the result of the
\* primary operation: trackEmailOpen and trackEmailClick return the same
\* success and alreadyTracked values whether createSystemMetric succeeds
\* or fails.
ResultWithMetric(t) ==
    IF trackers[t].type = "opened"
    THEN TrackResult(t, TRUE, FALSE, trackers[t].email[1].id)
    ELSE ClickResult(t, trackers[t].updated)

C27_MetricFailureKeepsResult ==
    [][ \A t \in TrackSlots :
          (trackers[t].pc = "metric" /\ trackers'[t].pc = "done") =>
             /\ trackers'[t].result.success = ResultWithMetric(t).success
             /\ trackers'[t].result.alreadyTracked = ResultWithMetric(t).alreadyTracked ]_vars

\* C28: when updateBlockedRegionStatus(id, isActive) answers success, the
\* blocked region of that id has its active flag equal to isActive and no
\* provider row was changed by the call; when it answers failure, neither
\* table was changed.
C28_RegionStatusUpdated ==
    [][ regionLast' # regionLast =>
          /\ smtpProviders' = smtpProviders
          /\ IF regionLast'.success
             THEN /\ getBlockedRegion(blockedRegions', regionLast'.id) # None
                  /\ getBlockedRegion(blockedRegions', regionLast'.id)[1].isActive
                        = regionLast'.isActive
             ELSE blockedRegions' = blockedRegions ]_vars

\* C29: whenever a message is submitted on a provider's pooled connection,
\* that provider is the one whose id the Email Record of the send holds,
\* also when the provider table changed between the selection of
\* processEmailSend and the selection inside sendEmail.
C29_SubmitsOnRecordedProvider ==
    \A x \in transport :
        x.kind = "sendMail" =>
            \A id \in RecordsOf(x.rid) : emails[id].smtpProviderId = x.provider

(* how many stored records pass a test; a fraction within 0..100 percent *)
Counted(Test(_)) == Cardinality({ i \in 1..Len(emails) : Test(emails[i]) })

WithinPercent(rate) == rate.den > 0 /\ 0 <= rate.num /\ rate.num <= 100 * rate.den

\* C30: for every table of email records, each of the three rates returned
\* by getEmailStatistics lies between 0 and 100 percent: the records with
\* openedAt set are never more than the records with status delivered,
\* opened or clicked, and the records with clickedAt set are never more
\* than the records with openedAt set.
C30_RatesWithinPercent ==
    (statsOut.asked /\ ~ statsOut.raised) =>
        /\ WithinPercent(statsOut.deliveryRate)
        /\ WithinPercent(statsOut.openRate)
        /\ WithinPercent(statsOut.clickRate)
        /\ Counted(LAMBDA e : e.openedAt # -1) <= Counted(DeliveredEquivalent)
        /\ Counted(LAMBDA e : e.clickedAt # -1) <= Counted(LAMBDA e : e.openedAt # -1)

====
